---- MODULE Spec2Model ----
(***************************************************************************)
(* A model of the AR Copilot record store (server/storage.ts), its HTTP    *)
(* routes (server/routes.ts), the shared zod schemas (shared/schema.ts),   *)
(* the tabbed client (client/src/pages/ar-copilot.tsx) and the comment     *)
(* generator (client/src/lib/denial-codes.ts).                             *)
(*                                                                         *)
(* JavaScript values are tagged records [t, v, n]: t is the typeof-like    *)
(* tag, v the characters of a string (a sequence of one-character          *)
(* strings), n the number of a number or the instant of a Date.  A         *)
(* JavaScript object is a function whose DOMAIN is the set of its own      *)
(* keys, so a missing key and a key holding null are different things.     *)
(***************************************************************************)
EXTENDS Integers, Sequences, FiniteSets, TLC

\* ------------------------------------------------------------------ bounds
\* The id counter is not advanced past MaxCreates + 1.
MaxCreates == 2
\* The wall clock (Date.now) is not advanced past MaxClock.
MaxClock == 1
\* Add Patient is clicked at most MaxAdds times in a browser session.
MaxAdds == 2
\* At most MaxInflight HTTP requests of the client are outstanding at a time.
MaxInflight == 1
\* Requests in flight at once while one form is edited.
MaxPending == 2
\* New Call is clicked at most MaxCalls times.
MaxCalls == 1
\* At most MaxConcurrent requests are handled by the server at the same time.
MaxConcurrent == 4

\* ------------------------------------------------------- JavaScript values
Undef == [t |-> "undefined", v |-> <<>>, n |-> 0]
Null == [t |-> "null", v |-> <<>>, n |-> 0]
Str(s) == [t |-> "string", v |-> s, n |-> 0]
Num(k) == [t |-> "number", v |-> <<>>, n |-> k]
DateV(k) == [t |-> "date", v |-> <<>>, n |-> k]

EmptyObj == [k \in {} |-> Null]

\* { ...a, ...b }: the keys of both, b's value where both have the key.
Spread(a, b) ==
  [k \in (DOMAIN a) \cup (DOMAIN b) |-> IF k \in DOMAIN b THEN b[k] ELSE a[k]]

\* obj.k, which is undefined for a key the object does not have.
Get(obj, k) == IF k \in DOMAIN obj THEN obj[k] ELSE Undef

DigitChars == <<"0", "1", "2", "3", "4", "5", "6", "7", "8", "9">>
IsDigit(c) == \E i \in 1..10 : DigitChars[i] = c
DigitVal(c) == (CHOOSE i \in 1..10 : DigitChars[i] = c) - 1

\* String(k) for 0 <= k <= 9999.
RECURSIVE NumToChars(_)
NumToChars(k) ==
  IF k < 10 THEN <<DigitChars[k + 1]>>
  ELSE NumToChars(k \div 10) \o <<DigitChars[(k % 10) + 1]>>

\* Date.prototype.toJSON: an ISO string, here "T" followed by the instant.
toISOString(k) == <<"T">> \o NumToChars(k)

\* JSON.parse(JSON.stringify(obj)) of a record object: keys holding undefined
\* are dropped, a Date becomes its ISO string.
toJSON(obj) ==
  [k \in {x \in DOMAIN obj : obj[x].t # "undefined"} |->
     IF obj[k].t = "date" THEN Str(toISOString(obj[k].n)) ELSE obj[k]]

\* parseInt(s): leading digits of s after an optional sign; NaN when none.
RECURSIVE DigitPrefix(_)
DigitPrefix(s) ==
  IF s = <<>> \/ ~IsDigit(Head(s)) THEN <<>>
  ELSE <<Head(s)>> \o DigitPrefix(Tail(s))

RECURSIVE DigitsValue(_, _)
DigitsValue(s, acc) ==
  IF s = <<>> THEN acc ELSE DigitsValue(Tail(s), acc * 10 + DigitVal(Head(s)))

parseInt(s) ==
  LET neg == s # <<>> /\ Head(s) = "-"
      rest == IF s # <<>> /\ Head(s) \in {"-", "+"} THEN Tail(s) ELSE s
      ds == DigitPrefix(rest)
  IN IF ds = <<>> THEN [nan |-> TRUE, n |-> 0]
     ELSE [nan |-> FALSE, n |-> IF neg THEN 0 - DigitsValue(ds, 0) ELSE DigitsValue(ds, 0)]

\* ------------------------------------------------------------ shared schema
\* Columns of patient_accounts that are text(...).notNull().
RequiredKeys == {"patientName", "accountNumber", "insuranceName", "sessionId"}
\* Columns of patient_accounts that are nullable text.
NullableKeys == {"repName", "callReference", "denialCode", "denialDescription",
                 "dateOfService", "eligibilityFromDate", "eligibilityStatus",
                 "additionalNotes"}
\* The shape left after .omit({ id, createdAt, updatedAt }).
ShapeKeys == RequiredKeys \cup NullableKeys

\* z.object strips the keys that are not in its shape.
StripUnknown(body) == [k \in (DOMAIN body) \cap ShapeKeys |-> body[k]]

NullableOk(body) ==
  \A k \in NullableKeys \cap DOMAIN body : body[k].t \in {"string", "null", "undefined"}

\* insertPatientAccountSchema.parse(body): [ok, data]; ok = FALSE is a ZodError.
insertPatientAccountSchema(body) ==
  [ok |-> /\ \A k \in RequiredKeys : k \in DOMAIN body /\ body[k].t = "string"
          /\ NullableOk(body),
   data |-> StripUnknown(body)]

\* Mutant: partial() also makes the required columns nullable.
updatePatientAccountSchema_nullable(body) ==
  [ok |-> \A k \in ShapeKeys \cap DOMAIN body : body[k].t \in {"string", "null", "undefined"},
   data |-> StripUnknown(body)]

\* updatePatientAccountSchema = insertPatientAccountSchema.partial().
updatePatientAccountSchema(body) ==
  [ok |-> /\ \A k \in RequiredKeys \cap DOMAIN body : body[k].t \in {"string", "undefined"}
          /\ NullableOk(body),
   data |-> StripUnknown(body)]

\* ------------------------------------------------------------------- state
VARIABLES
  patientAccounts,   \* MemStorage.patientAccounts: the Map, as its entries in insertion order
  currentAccountId,  \* MemStorage.currentAccountId
  now,               \* the wall clock read by new Date()
  resp,              \* the response sent last, with the request it answers
  created,           \* the ids returned by createPatientAccount, in call order
  sessionId,         \* ARCopilot: the sessionId state
  activeTabId,       \* ARCopilot: the activeTabId state, 0 for null
  form,              \* ARCopilot: the values of the react-hook-form form
  persistedAccounts, \* ARCopilot: the persistedAccounts state
  serverAccounts,    \* ARCopilot: the data of the accounts query
  net,               \* the client's HTTP requests and responses in flight
  entered,           \* what the user typed: <<active account, field, value>>
  sessionStorage,    \* the two sessionStorage keys of the page; <<>> for a key that is absent
  reloading,         \* window.location.reload() was called and the page is not yet replaced
  ended,             \* the session ids of the calls ended with New Call
  generatedComment,  \* ARCopilot: the generatedComment state
  generated,         \* the comments generated: the form data, the comment, the time
  exported           \* exportSession: the headers, csvRows and csvContent of the last export

serverVars == <<patientAccounts, currentAccountId, now, resp, created>>
clientVars == <<sessionId, activeTabId, form, persistedAccounts, serverAccounts, net, entered,
               sessionStorage, reloading, ended>>
commentVars == <<generatedComment, generated, exported>>
vars == <<serverVars, clientVars, commentVars>>

\* ---------------------------------------------------------------- the Map
MapKeys(m) == {m[i].key : i \in 1..Len(m)}
MapHas(m, k) == \E i \in 1..Len(m) : m[i].key = k
MapGet(m, k) == m[CHOOSE i \in 1..Len(m) : m[i].key = k].value
\* Map.prototype.set: an existing key keeps its place, a new key goes last.
MapSet(m, k, val) ==
  IF MapHas(m, k)
  THEN [i \in 1..Len(m) |-> IF m[i].key = k THEN [key |-> k, value |-> val] ELSE m[i]]
  ELSE Append(m, [key |-> k, value |-> val])
MapDelete(m, k) == SelectSeq(m, LAMBDA e : e.key # k)
\* Array.from(map.values())
MapValues(m) == [i \in 1..Len(m) |-> m[i].value]

\* --------------------------------------------------------------- MemStorage
\* Mutant: the session filter is left out.
getPatientAccountsBySession_noFilter(sid) == MapValues(patientAccounts)

\* Each method yields the store after the call and the value it returns.
getPatientAccountsBySession(sid) ==
  SelectSeq(MapValues(patientAccounts), LAMBDA account : Get(account, "sessionId") = Str(sid))

\* found = FALSE stands for the undefined that Map.get returns.
getPatientAccount(id) ==
  IF ~id.nan /\ MapHas(patientAccounts, id.n)
  THEN [found |-> TRUE, account |-> MapGet(patientAccounts, id.n)]
  ELSE [found |-> FALSE, account |-> EmptyObj]

\* Mutant: the id is taken from the size of the map instead of the counter.
createPatientAccount_sizeId(insertAccount) ==
  LET id == Len(patientAccounts) + 1
      account == Spread(insertAccount,
                        [id |-> Num(id), createdAt |-> DateV(now), updatedAt |-> DateV(now)])
  IN [store |-> MapSet(patientAccounts, id, account),
      nextId |-> currentAccountId + 1,
      account |-> account]

createPatientAccount(insertAccount) ==
  LET id == currentAccountId
      account == Spread(insertAccount,
                        [id |-> Num(id), createdAt |-> DateV(now), updatedAt |-> DateV(now)])
  IN [store |-> MapSet(patientAccounts, id, account),
      nextId |-> currentAccountId + 1,
      account |-> account]

\* Mutant: the record is replaced by the updates instead of merged with them.
updatePatientAccount_replace(id, updates) ==
  IF id.nan \/ ~MapHas(patientAccounts, id.n)
  THEN [store |-> patientAccounts, found |-> FALSE, account |-> EmptyObj]
  ELSE LET updated == Spread(updates, [updatedAt |-> DateV(now)])
       IN [store |-> MapSet(patientAccounts, id.n, updated),
           found |-> TRUE,
           account |-> updated]

\* Mutant: a missing record is created from the updates (an upsert).
updatePatientAccount_upsert(id, updates) ==
  IF id.nan
  THEN [store |-> patientAccounts, found |-> FALSE, account |-> EmptyObj]
  ELSE LET existing == IF MapHas(patientAccounts, id.n)
                       THEN MapGet(patientAccounts, id.n) ELSE EmptyObj
           updated == Spread(Spread(existing, updates), [updatedAt |-> DateV(now)])
       IN [store |-> MapSet(patientAccounts, id.n, updated),
           found |-> MapHas(patientAccounts, id.n),
           account |-> updated]

\* Mutant: the merged record is returned but never put back into the map.
updatePatientAccount_noSet(id, updates) ==
  IF id.nan \/ ~MapHas(patientAccounts, id.n)
  THEN [store |-> patientAccounts, found |-> FALSE, account |-> EmptyObj]
  ELSE LET existing == MapGet(patientAccounts, id.n)
           updated == Spread(Spread(existing, updates), [updatedAt |-> DateV(now)])
       IN [store |-> patientAccounts, found |-> TRUE, account |-> updated]

updatePatientAccount(id, updates) ==
  IF id.nan \/ ~MapHas(patientAccounts, id.n)
  THEN [store |-> patientAccounts, found |-> FALSE, account |-> EmptyObj]
  ELSE LET existing == MapGet(patientAccounts, id.n)
           updated == Spread(Spread(existing, updates), [updatedAt |-> DateV(now)])
       IN [store |-> MapSet(patientAccounts, id.n, updated),
           found |-> TRUE,
           account |-> updated]

\* Mutant: delete reports success whether or not the key was there.
deletePatientAccount_alwaysTrue(id) ==
  [store |-> IF id.nan THEN patientAccounts ELSE MapDelete(patientAccounts, id.n),
   deleted |-> TRUE]

\* Map.prototype.delete returns whether the key was there.
deletePatientAccount(id) ==
  [store |-> IF id.nan THEN patientAccounts ELSE MapDelete(patientAccounts, id.n),
   deleted |-> ~id.nan /\ MapHas(patientAccounts, id.n)]

\* ------------------------------------------------------------------ routes
MsgNotFound == <<"P", "a", "t", "i", "e", "n", "t", " ", "a", "c", "c", "o", "u", "n", "t", " ", "n", "o", "t", " ", "f", "o", "u", "n", "d">>
MsgInvalid == <<"I", "n", "v", "a", "l", "i", "d", " ", "d", "a", "t", "a">>

\* The request answered: the route, its path parameter and the request body.
Request(op, param, sent) == [op |-> op, param |-> param, sent |-> sent]

\* res.status(status).json(body), with the request it answers: body is an
\* object, list an array of objects.
Response(req, status, body, list) ==
  [op |-> req.op, param |-> req.param, sent |-> req.sent,
   status |-> status, body |-> body, list |-> list]
NotFound(req) == Response(req, 404, [message |-> Str(MsgNotFound)], <<>>)
Invalid(req) == Response(req, 400, [message |-> Str(MsgInvalid)], <<>>)

\* GET /api/accounts/:sessionId
GetAccounts(sid) ==
  LET accounts == getPatientAccountsBySession(sid)
  IN /\ resp' = Response(Request("list", sid, EmptyObj), 200, EmptyObj,
                         [i \in 1..Len(accounts) |-> toJSON(accounts[i])])
     /\ UNCHANGED <<patientAccounts, currentAccountId, now, created>>

\* GET /api/accounts/detail/:id
GetAccountDetail(idParam) ==
  LET got == getPatientAccount(parseInt(idParam))
  IN /\ resp' = IF got.found
                THEN Response(Request("detail", idParam, EmptyObj), 200, toJSON(got.account), <<>>)
                ELSE NotFound(Request("detail", idParam, EmptyObj))
     /\ UNCHANGED <<patientAccounts, currentAccountId, now, created>>

\* Mutant: the id is allocated before the body is validated.
PostAccount_allocFirst(body) ==
  LET parsed == insertPatientAccountSchema(body)
      made == createPatientAccount(parsed.data)
  IN /\ currentAccountId' = made.nextId
     /\ IF parsed.ok
        THEN /\ patientAccounts' = made.store
             /\ created' = Append(created, made.account["id"].n)
             /\ resp' = Response(Request("create", <<>>, body), 201, toJSON(made.account), <<>>)
        ELSE /\ resp' = Invalid(Request("create", <<>>, body))
             /\ UNCHANGED <<patientAccounts, created>>
     /\ UNCHANGED now

\* POST /api/accounts
PostAccount(body) ==
  LET parsed == insertPatientAccountSchema(body)
      made == createPatientAccount(parsed.data)
  IN /\ IF parsed.ok
        THEN /\ patientAccounts' = made.store
             /\ currentAccountId' = made.nextId
             /\ created' = Append(created, made.account["id"].n)
             /\ resp' = Response(Request("create", <<>>, body), 201, toJSON(made.account), <<>>)
        ELSE /\ resp' = Invalid(Request("create", <<>>, body))
             /\ UNCHANGED <<patientAccounts, currentAccountId, created>>
     /\ UNCHANGED now

\* PATCH /api/accounts/:id
PatchAccount(idParam, body) ==
  LET parsed == updatePatientAccountSchema(body)
      done == updatePatientAccount(parseInt(idParam), parsed.data)
  IN /\ IF ~parsed.ok
        THEN /\ resp' = Invalid(Request("update", idParam, body))
             /\ UNCHANGED patientAccounts
        ELSE /\ patientAccounts' = done.store
             /\ resp' = IF done.found
                        THEN Response(Request("update", idParam, body), 200, toJSON(done.account), <<>>)
                        ELSE NotFound(Request("update", idParam, body))
     /\ UNCHANGED <<currentAccountId, now, created>>

\* DELETE /api/accounts/:id
DeleteAccount(idParam) ==
  LET done == deletePatientAccount(parseInt(idParam))
  IN /\ patientAccounts' = done.store
     /\ resp' = IF done.deleted
                THEN Response(Request("delete", idParam, EmptyObj), 204, EmptyObj, <<>>)
                ELSE NotFound(Request("delete", idParam, EmptyObj))
     /\ UNCHANGED <<currentAccountId, now, created>>

\* Time passes between two requests.
Tick ==
  /\ now < MaxClock
  /\ now' = now + 1
  /\ UNCHANGED <<patientAccounts, currentAccountId, resp, created>>

\* ------------------------------------------------------ requests explored
SessionIds == {<<"s">>, <<"t">>}
\* Path parameters: every id the counter hands out (an id is missing before it
\* is created and after it is deleted), and text that parseInt reads as NaN.
IdParams == {NumToChars(i) : i \in 1..MaxCreates} \cup {<<"x">>}

Obj1(k, val) == [x \in {k} |-> val]

\* What Add Patient posts, for session s.
NewAccountData(s) ==
  [patientName |-> Str(<<"N", "e", "w">>), accountNumber |-> Str(<<"A", "C", "C">>),
   insuranceName |-> Str(<<>>), sessionId |-> Str(s)]

InsertBodies ==
  { Spread(NewAccountData(<<"s">>), Obj1("id", Num(9))),
    Spread(NewAccountData(<<"t">>), Obj1("repName", Str(<<"r">>))),
    [accountNumber |-> Str(<<"A", "C", "C">>), insuranceName |-> Str(<<>>), sessionId |-> Str(<<"s">>)],
    Spread(NewAccountData(<<"s">>), Obj1("patientName", Null)) }

UpdateBodies ==
  { EmptyObj,
    [id |-> Num(9), repName |-> Str(<<"r">>)],
    [sessionId |-> Str(<<"t">>), repName |-> Str(<<"r">>)],
    Obj1("patientName", Null) }

\* ------------------------------------------------------------- strings
UpperCase == <<"A", "B", "C", "D", "E", "F", "G", "H", "I", "J", "K", "L", "M",
               "N", "O", "P", "Q", "R", "S", "T", "U", "V", "W", "X", "Y", "Z">>
LowerCase == <<"a", "b", "c", "d", "e", "f", "g", "h", "i", "j", "k", "l", "m",
               "n", "o", "p", "q", "r", "s", "t", "u", "v", "w", "x", "y", "z">>
Letters == 1..Len(UpperCase)

UpperLetters == {UpperCase[i] : i \in Letters}
LowerLetters == {LowerCase[i] : i \in Letters}

toLowerCaseChar(c) ==
  IF c \in UpperLetters THEN LowerCase[CHOOSE i \in Letters : UpperCase[i] = c] ELSE c
toUpperCaseChar(c) ==
  IF c \in LowerLetters THEN UpperCase[CHOOSE i \in Letters : LowerCase[i] = c] ELSE c
toLowerCase(s) == [i \in 1..Len(s) |-> toLowerCaseChar(s[i])]

\* The classes \s and \w of a regular expression.
WhitespaceChars == {" ", "\t", "\n", "\r"}
DigitSet == {DigitChars[i] : i \in 1..Len(DigitChars)}
WordChars == {"_"} \cup DigitSet \cup UpperLetters \cup LowerLetters
IsWhitespace(c) == c \in WhitespaceChars
IsWordChar(c) == c \in WordChars

Least(S) == CHOOSE x \in S : \A y \in S : x <= y
Greatest(S) == CHOOSE x \in S : \A y \in S : x >= y

\* String.prototype.trim
trim(s) ==
  LET kept == {i \in 1..Len(s) : ~IsWhitespace(s[i])}
  IN IF kept = {} THEN <<>> ELSE SubSeq(s, Least(kept), Greatest(kept))

\* sub occurs in s at index i.
OccursAt(s, sub, i) ==
  /\ i + Len(sub) - 1 <= Len(s)
  /\ \A n \in 1..Len(sub) : s[i + n - 1] = sub[n]
\* String.prototype.includes
includes(s, sub) == \E i \in 1..(Len(s) + 1) : OccursAt(s, sub, i)

\* array.join(sep) of an array of strings.
RECURSIVE join(_, _)
join(parts, sep) ==
  IF parts = <<>> THEN <<>>
  ELSE IF Len(parts) = 1 THEN parts[1]
  ELSE parts[1] \o sep \o join(Tail(parts), sep)

\* ----------------------------------------------------- regular expressions
\* The expressions of denial-codes.ts are sequences of these elements, each
\* followed by an element that cannot start where the one before could go on,
\* so that a match never backtracks: \b, a literal (matched without regard to
\* case), \s+ or \s*, and \d+ or \d{8}.
Boundary == [t |-> "b", v |-> <<>>, min |-> 0, max |-> 0]
Lit(text) == [t |-> "lit", v |-> text, min |-> 0, max |-> 0]
Spaces(min) == [t |-> "s", v |-> <<>>, min |-> min, max |-> 0]
Digits(min, max) == [t |-> "d", v |-> <<>>, min |-> min, max |-> max]

\* \b at index i: exactly one of the characters before and at i is a word character.
isBoundary(s, i) ==
  (i > 1 /\ IsWordChar(s[i - 1])) # (i <= Len(s) /\ IsWordChar(s[i]))

\* Where the longest run of the class from index i ends (max = 0: unbounded).
RunEnd(s, i, t, max) ==
  LET class == IF t = "s" THEN WhitespaceChars ELSE DigitSet
      stops == {j \in i..Len(s) : s[j] \notin class \/ (max > 0 /\ j >= i + max)}
  IN IF stops = {} THEN Len(s) + 1 ELSE Least(stops)

\* The index after the match of pat[j..] at index i of s, or 0 for no match.
RECURSIVE matchAt(_, _, _, _)
matchAt(s, i, pat, j) ==
  IF j > Len(pat) THEN i
  ELSE LET tok == pat[j]
       IN CASE tok.t = "b" ->
                 IF isBoundary(s, i) THEN matchAt(s, i, pat, j + 1) ELSE 0
            [] tok.t = "lit" ->
                 IF /\ i + Len(tok.v) - 1 <= Len(s)
                    /\ \A n \in 1..Len(tok.v) :
                         toLowerCaseChar(s[i + n - 1]) = toLowerCaseChar(tok.v[n])
                 THEN matchAt(s, i + Len(tok.v), pat, j + 1) ELSE 0
            [] OTHER ->
                 LET e == RunEnd(s, i, tok.t, tok.max)
                 IN IF e - i >= tok.min THEN matchAt(s, e, pat, j + 1) ELSE 0

\* The digits a match ends with: the group (\d+) or (\d{8}) that closes it.
lastDigits(matched) ==
  LET others == {i \in 1..Len(matched) : ~IsDigit(matched[i])}
  IN IF others = {} THEN matched ELSE SubSeq(matched, Greatest(others) + 1, Len(matched))

\* What a match is replaced by: a text, 'other claim #$1', or the function
\* that turns DDMMYYYY into 'submitted on MM/DD/YYYY'.
Replacement(rule, matched) ==
  CASE rule.as = "text" -> rule.text
    [] rule.as = "claim" -> rule.text \o lastDigits(matched)
    [] rule.as = "date" ->
         LET date == lastDigits(matched)
         IN IF Len(date) = 8
            THEN rule.text \o SubSeq(date, 3, 4) \o <<"/">> \o SubSeq(date, 1, 2)
                           \o <<"/">> \o SubSeq(date, 5, 8)
            ELSE matched

\* String.prototype.replace with a global expression: the matches are found
\* from left to right in s, and the text between them is kept.
RECURSIVE replaceFrom(_, _, _)
replaceFrom(s, i, rule) ==
  LET starts == {k \in i..Len(s) : matchAt(s, k, rule.pat, 1) > k}
  IN IF starts = {} THEN SubSeq(s, i, Len(s))
     ELSE LET k == Least(starts)
              e == matchAt(s, k, rule.pat, 1)
          IN SubSeq(s, i, k - 1) \o Replacement(rule, SubSeq(s, k, e - 1))
             \o replaceFrom(s, e, rule)
replace(s, rule) == replaceFrom(s, 1, rule)

Rule(pat, as, text) == [pat |-> pat, as |-> as, text |-> text]

\* ------------------------------------------------------------ denial-codes
\* The order of the characters that the labels are made of, case apart.
CollationOrder == <<" ", "(", ")">> \o LowerCase
Rank(c) == CHOOSE i \in 1..Len(CollationOrder) : CollationOrder[i] = toLowerCaseChar(c)

\* a.localeCompare(b) < 0, for labels that differ in more than case.
RECURSIVE localeBefore(_, _)
localeBefore(a, b) ==
  IF b = <<>> THEN FALSE
  ELSE IF a = <<>> THEN TRUE
  ELSE IF Rank(a[1]) # Rank(b[1]) THEN Rank(a[1]) < Rank(b[1])
  ELSE localeBefore(Tail(a), Tail(b))

\* array.sort((a, b) => a.label.localeCompare(b.label))
RECURSIVE sortByLabel(_)
sortByLabel(options) ==
  IF options = <<>> THEN <<>>
  ELSE LET first == CHOOSE i \in 1..Len(options) :
                      \A j \in 1..Len(options) : j = i \/ localeBefore(options[i].label, options[j].label)
       IN <<options[first]>> \o
          sortByLabel([k \in 1..(Len(options) - 1) |-> IF k < first THEN options[k] ELSE options[k + 1]])

insuranceOptions ==
  sortByLabel(<<
    [value |-> <<"a", "e", "t", "n", "a">>, label |-> <<"A", "e", "t", "n", "a">>],
    [value |-> <<"a", "m", "e", "r", "i", "g", "r", "o", "u", "p">>, label |-> <<"A", "m", "e", "r", "i", "g", "r", "o", "u", "p">>],
    [value |-> <<"a", "n", "t", "h", "e", "m">>, label |-> <<"A", "n", "t", "h", "e", "m">>],
    [value |-> <<"b", "c", "b", "s">>, label |-> <<"B", "l", "u", "e", " ", "C", "r", "o", "s", "s", " ", "B", "l", "u", "e", " ", "S", "h", "i", "e", "l", "d">>],
    [value |-> <<"c", "e", "n", "t", "e", "n", "e">>, label |-> <<"C", "e", "n", "t", "e", "n", "e">>],
    [value |-> <<"c", "i", "g", "n", "a">>, label |-> <<"C", "i", "g", "n", "a">>],
    [value |-> <<"c", "o", "v", "e", "n", "t", "r", "y">>, label |-> <<"C", "o", "v", "e", "n", "t", "r", "y", " ", "H", "e", "a", "l", "t", "h", " ", "C", "a", "r", "e">>],
    [value |-> <<"e", "l", "e", "v", "a", "n", "c", "e">>, label |-> <<"E", "l", "e", "v", "a", "n", "c", "e", " ", "H", "e", "a", "l", "t", "h">>],
    [value |-> <<"h", "e", "a", "l", "t", "h", "n", "e", "t">>, label |-> <<"H", "e", "a", "l", "t", "h", " ", "N", "e", "t">>],
    [value |-> <<"h", "u", "m", "a", "n", "a">>, label |-> <<"H", "u", "m", "a", "n", "a">>],
    [value |-> <<"i", "n", "d", "e", "p", "e", "n", "d", "e", "n", "c", "e">>, label |-> <<"I", "n", "d", "e", "p", "e", "n", "d", "e", "n", "c", "e", " ", "B", "l", "u", "e", " ", "C", "r", "o", "s", "s">>],
    [value |-> <<"k", "a", "i", "s", "e", "r">>, label |-> <<"K", "a", "i", "s", "e", "r", " ", "P", "e", "r", "m", "a", "n", "e", "n", "t", "e">>],
    [value |-> <<"m", "e", "d", "i", "c", "a", "i", "d">>, label |-> <<"M", "e", "d", "i", "c", "a", "i", "d">>],
    [value |-> <<"m", "e", "d", "i", "c", "a", "r", "e">>, label |-> <<"M", "e", "d", "i", "c", "a", "r", "e">>],
    [value |-> <<"m", "o", "l", "i", "n", "a">>, label |-> <<"M", "o", "l", "i", "n", "a", " ", "H", "e", "a", "l", "t", "h", "c", "a", "r", "e">>],
    [value |-> <<"o", "s", "c", "a", "r">>, label |-> <<"O", "s", "c", "a", "r", " ", "H", "e", "a", "l", "t", "h">>],
    [value |-> <<"t", "r", "i", "c", "a", "r", "e">>, label |-> <<"T", "R", "I", "C", "A", "R", "E">>],
    [value |-> <<"u", "h", "c">>, label |-> <<"U", "n", "i", "t", "e", "d", " ", "H", "e", "a", "l", "t", "h", "c", "a", "r", "e", " ", "(", "U", "H", "C", ")">>],
    [value |-> <<"w", "e", "l", "l", "c", "a", "r", "e">>, label |-> <<"W", "e", "l", "l", "C", "a", "r", "e">>],
    [value |-> <<"o", "t", "h", "e", "r">>, label |-> <<"O", "t", "h", "e", "r">>]>>)

\* insuranceOptions.find(opt => opt.value === value), label or the value itself.
getInsuranceLabel(value) ==
  IF \E i \in 1..Len(insuranceOptions) : insuranceOptions[i].value = value
  THEN insuranceOptions[CHOOSE i \in 1..Len(insuranceOptions) : insuranceOptions[i].value = value].label
  ELSE value

\* The abbreviations and misspellings that improveAdditionalNotes writes out,
\* in the order of the object's entries.
improvements == <<
  <<<<"d", "u", "p">>, <<"d", "u", "p", "l", "i", "c", "a", "t", "e">>>>,
  <<<<"p", "r", "e", "v">>, <<"p", "r", "e", "v", "i", "o", "u", "s">>>>,
  <<<<"c", "l", "a", "i", "i", "m">>, <<"c", "l", "a", "i", "m">>>>,
  <<<<"s", "u", "i", "b", "m", "i", "t">>, <<"s", "u", "b", "m", "i", "t", "t", "e", "d">>>>,
  <<<<"s", "u", "b", "m", "i", "t", "e", "d">>, <<"s", "u", "b", "m", "i", "t", "t", "e", "d">>>>,
  <<<<"r", "e", "c", "i", "e", "v", "e", "d">>, <<"r", "e", "c", "e", "i", "v", "e", "d">>>>,
  <<<<"p", "a", "y", "e", "d">>, <<"p", "a", "i", "d">>>>,
  <<<<"a", "p", "p", "r", "o", "v", "e", "l">>, <<"a", "p", "p", "r", "o", "v", "a", "l">>>>,
  <<<<"a", "u", "t", "h", "o", "r", "i", "z", "a", "t", "o", "n">>, <<"a", "u", "t", "h", "o", "r", "i", "z", "a", "t", "i", "o", "n">>>>,
  <<<<"n", "e", "c", "e", "s", "a", "r", "y">>, <<"n", "e", "c", "e", "s", "s", "a", "r", "y">>>>,
  <<<<"s", "e", "p", "e", "r", "a", "t", "e", "l", "y">>, <<"s", "e", "p", "a", "r", "a", "t", "e", "l", "y">>>>,
  <<<<"s", "e", "p", "e", "r", "e", "t", "e">>, <<"s", "e", "p", "a", "r", "a", "t", "e">>>>,
  <<<<"w", "/">>, <<"w", "i", "t", "h">>>>,
  <<<<"p", "t">>, <<"p", "a", "t", "i", "e", "n", "t">>>>,
  <<<<"d", "x">>, <<"d", "i", "a", "g", "n", "o", "s", "i", "s">>>>,
  <<<<"p", "r", "o", "c">>, <<"p", "r", "o", "c", "e", "d", "u", "r", "e">>>>,
  <<<<"a", "u", "t", "h">>, <<"a", "u", "t", "h", "o", "r", "i", "z", "a", "t", "i", "o", "n">>>>,
  <<<<"p", "r", "e", "-", "a", "u", "t", "h">>, <<"p", "r", "e", "-", "a", "u", "t", "h", "o", "r", "i", "z", "a", "t", "i", "o", "n">>>>,
  <<<<"r", "e", "i", "m", "b">>, <<"r", "e", "i", "m", "b", "u", "r", "s", "e", "m", "e", "n", "t">>>>,
  <<<<"c", "o", "o", "r", "d">>, <<"c", "o", "o", "r", "d", "i", "n", "a", "t", "i", "o", "n">>>>,
  <<<<"b", "e", "n", "e", "f", "t", "s">>, <<"b", "e", "n", "e", "f", "i", "t", "s">>>>,
  <<<<"e", "l", "i", "g", "i", "b", "i", "l", "t", "y">>, <<"e", "l", "i", "g", "i", "b", "i", "l", "i", "t", "y">>>>,
  <<<<"m", "c", "r">>, <<"M", "e", "d", "i", "c", "a", "r", "e">>>>,
  <<<<"p", "r", "i", "m">>, <<"p", "r", "i", "m", "a", "r", "y">>>>,
  <<<<"b", "i", "l", "e", "d">>, <<"b", "i", "l", "l", "e", "d">>>>>>

\* new RegExp(`\\b${wrong}\\b`, 'gi') and its replacement.
WordRule(entry) == Rule(<<Boundary, Lit(entry[1]), Boundary>>, "text", entry[2])

\* improved after entries k.. of improvements have been applied in turn.
RECURSIVE applyImprovements(_, _)
applyImprovements(improved, k) ==
  IF k > Len(improvements) \/ improved = <<>> THEN improved
  ELSE applyImprovements(replace(improved, WordRule(improvements[k])), k + 1)

\* The common patterns that improveAdditionalNotes fixes, in order.
commonPatterns == <<
  Rule(<<Boundary, Lit(<<"n", "o">>), Spaces(1), Lit(<<"v", "o", "i", "d">>), Spaces(1), Lit(<<"a", "n", "y">>),
         Spaces(1), Lit(<<"c", "l", "a", "i", "m">>), Boundary>>, "text", <<"d", "o", " ", "n", "o", "t", " ", "v", "o", "i", "d", " ", "a", "n", "y", " ", "c", "l", "a", "i", "m", "s">>),
  Rule(<<Boundary, Lit(<<"y", "e", "s">>), Spaces(1), Lit(<<"t", "r", "u", "e">>), Spaces(1), Lit(<<"d", "u", "p", "l", "i", "c", "a", "t", "e">>),
         Boundary>>, "text", <<"c", "o", "n", "f", "i", "r", "m", "e", "d", " ", "t", "r", "u", "e", " ", "d", "u", "p", "l", "i", "c", "a", "t", "e">>),
  Rule(<<Boundary, Lit(<<"o", "t", "h", "e", "r">>), Spaces(1), Lit(<<"c", "l", "a", "i", "m">>), Spaces(0), Lit(<<"#">>),
         Spaces(0), Digits(1, 0)>>, "claim", <<"o", "t", "h", "e", "r", " ", "c", "l", "a", "i", "m", " ", "#">>),
  Rule(<<Boundary, Lit(<<"s", "u", "b", "m", "i", "t">>), Spaces(1), Lit(<<"o", "n">>), Spaces(1), Digits(8, 8)>>,
       "date", <<"s", "u", "b", "m", "i", "t", "t", "e", "d", " ", "o", "n", " ">>),
  Rule(<<Boundary, Lit(<<"p", "a", "i", "d">>), Spaces(1), Lit(<<"o", "u", "t">>), Boundary>>, "text", <<"p", "a", "i", "d", " ", "i", "n", " ", "f", "u", "l", "l">>),
  Rule(<<Spaces(1)>>, "text", <<" ">>)>>

RECURSIVE applyPatterns(_, _)
applyPatterns(improved, k) ==
  IF k > Len(commonPatterns) \/ improved = <<>> THEN improved
  ELSE applyPatterns(replace(improved, commonPatterns[k]), k + 1)

\* improveAdditionalNotes(notes)
improveAdditionalNotes(notes) ==
  IF notes = <<>> \/ trim(notes) = <<>> THEN <<>>
  ELSE LET lowered == trim(toLowerCase(notes))
           fixed == trim(applyPatterns(applyImprovements(lowered, 1), 1))
           improved == IF fixed = <<>> THEN <<>>
                       ELSE <<toUpperCaseChar(fixed[1])>> \o Tail(fixed)
       IN IF improved # <<>> /\ improved[Len(improved)] \in {".", "!", "?"}
          THEN improved
          ELSE improved \o <<".">>

\* parseCoordinationOfBenefitsResponse(notes)
parseCoordinationOfBenefitsResponse(notes) ==
  LET lowerNotes == toLowerCase(notes)
      has(text) == includes(lowerNotes, text)
      insuranceNames ==
        (IF has(<<"m", "e", "d", "i", "c", "a", "r", "e">>) \/ has(<<"m", "c", "r">>) THEN <<<<"M", "e", "d", "i", "c", "a", "r", "e">>>> ELSE <<>>)
        \o (IF has(<<"a", "e", "t", "n", "a">>) THEN <<<<"A", "e", "t", "n", "a">>>> ELSE <<>>)
        \o (IF has(<<"b", "c", "b", "s">>) \/ has(<<"b", "l", "u", "e", " ", "c", "r", "o", "s", "s">>) THEN <<<<"B", "l", "u", "e", " ", "C", "r", "o", "s", "s", " ", "B", "l", "u", "e", " ", "S", "h", "i", "e", "l", "d">>>> ELSE <<>>)
        \o (IF has(<<"u", "h", "c">>) \/ has(<<"u", "n", "i", "t", "e", "d">>) THEN <<<<"U", "n", "i", "t", "e", "d", " ", "H", "e", "a", "l", "t", "h", "c", "a", "r", "e">>>> ELSE <<>>)
      primaryInsurance ==
        IF has(<<"m", "e", "d", "i", "c", "a", "r", "e">>) /\ (has(<<"p", "r", "i", "m", "a", "r", "y">>) \/ has(<<"1", "s", "t">>)) THEN <<"M", "e", "d", "i", "c", "a", "r", "e">>
        ELSE IF Len(insuranceNames) > 0 THEN insuranceNames[1]
        ELSE <<>>
      primaryNotBilled == has(<<"n", "e", "v", "e", "r", " ", "b", "i", "l", "l", "e", "d">>) \/ has(<<"n", "o", "t", " ", "b", "i", "l", "l", "e", "d">>) \/ has(<<"n", "o", " ", "p", "r", "i", "m">>)
      patientHas ==
        IF Len(insuranceNames) > 1
        THEN <<"P", "a", "t", "i", "e", "n", "t", " ", "h", "a", "s", " ">> \o join(insuranceNames, <<" ", "a", "n", "d", " ">>) \o <<".", " ">>
        ELSE IF Len(insuranceNames) = 1
        THEN <<"P", "a", "t", "i", "e", "n", "t", " ", "h", "a", "s", " ">> \o insuranceNames[1] \o <<".", " ">>
        ELSE <<>>
      shouldBe ==
        IF primaryInsurance # <<>>
        THEN primaryInsurance \o <<" ", "s", "h", "o", "u", "l", "d", " ", "b", "e", " ", "p", "r", "i", "m", "a", "r", "y">>
             \o (IF primaryNotBilled THEN <<",", " ", "b", "u", "t", " ", "i", "t", " ", "w", "a", "s", " ", "n", "o", "t", " ", "b", "i", "l", "l", "e", "d", " ", "f", "i", "r", "s", "t", ".", " ">> ELSE <<".", " ">>)
        ELSE <<>>
      others == SelectSeq(insuranceNames, LAMBDA name : name # primaryInsurance)
      order ==
        IF Len(insuranceNames) > 1 /\ others # <<>>
        THEN <<"C", "O", "B", " ", "o", "r", "d", "e", "r", " ", "i", "s", " ">> \o primaryInsurance \o <<" ", "p", "r", "i", "m", "a", "r", "y", ",", " ", "t", "h", "e", "n", " ">>
             \o others[1] \o <<" ", "s", "e", "c", "o", "n", "d", "a", "r", "y", ".">>
        ELSE <<>>
      response == patientHas \o shouldBe \o order
  IN IF response # <<>> THEN response ELSE improveAdditionalNotes(notes)

\* The expressions of qaPatterns: a text, or a text followed on the same line
\* by another (no.*billed, never.*billed).
qaPatterns == <<
  <<<<"m", "e", "d", "i", "c", "a", "r", "e">>, <<>>>>, <<<<"m", "c", "r">>, <<>>>>, <<<<"a", "e", "t", "n", "a">>, <<>>>>, <<<<"n", "o">>, <<"b", "i", "l", "l", "e", "d">>>>,
  <<<<"p", "r", "i", "m", "a", "r", "y">>, <<>>>>, <<<<"s", "e", "c", "o", "n", "d", "a", "r", "y">>, <<>>>>, <<<<"1", "s", "t">>, <<>>>>, <<<<"2", "n", "d">>, <<>>>>,
  <<<<"n", "e", "v", "e", "r">>, <<"b", "i", "l", "l", "e", "d">>>>, <<<<"c", "o", "b">>, <<>>>>, <<<<"c", "o", "o", "r", "d", "i", "n", "a", "t", "i", "o", "n">>, <<>>>>>>

\* pattern.test(notes), without regard to case.
test(pattern, notes) ==
  LET s == toLowerCase(notes)
  IN \E i \in 1..(Len(s) + 1) :
       /\ OccursAt(s, pattern[1], i)
       /\ \E j \in (i + Len(pattern[1]))..(Len(s) + 1) :
            /\ OccursAt(s, pattern[2], j)
            /\ \A k \in (i + Len(pattern[1]))..(j - 1) : s[k] \notin {"\n", "\r"}

\* parseQAResponse(notes, denialCode)
parseQAResponse(notes, denialCode) ==
  IF notes = <<>> \/ trim(notes) = <<>> THEN <<>>
  ELSE LET hasQAFormat == \E p \in 1..Len(qaPatterns) : test(qaPatterns[p], notes)
       IN IF hasQAFormat /\ denialCode = <<"C", "O", "-", "2", "2">>
          THEN parseCoordinationOfBenefitsResponse(notes)
          ELSE improveAdditionalNotes(notes)

\* value || fallback, for a string.
OrText(value, fallback) == IF value # <<>> THEN value ELSE fallback

\* formData.k: a property that is missing reads as undefined, and every use
\* generateRCMComment makes of a value (value || fallback, !notes, === with a
\* non-empty text) treats undefined as it treats the empty string.
Prop(formData, k) == IF k \in DOMAIN formData THEN formData[k] ELSE <<>>

\* Mutant: the table with its keys in the order of their characters.
denialCodeMappings_byCharacter == <<
  [key |-> <<"C", "O", "-", "1", "1">>, code |-> <<"C", "O", "-", "1", "1">>,
   description |-> <<"T", "h", "e", " ", "d", "i", "a", "g", "n", "o", "s", "i", "s", " ", "i", "s", " ", "i", "n", "c", "o", "n", "s", "i", "s", "t", "e", "n", "t", " ", "w", "i", "t", "h", " ", "t", "h", "e", " ", "p", "r", "o", "c", "e", "d", "u", "r", "e">>],
  [key |-> <<"C", "O", "-", "4">>, code |-> <<"C", "O", "-", "4">>,
   description |-> <<"T", "h", "e", " ", "p", "r", "o", "c", "e", "d", "u", "r", "e", " ", "c", "o", "d", "e", " ", "i", "s", " ", "i", "n", "c", "o", "n", "s", "i", "s", "t", "e", "n", "t", " ", "w", "i", "t", "h", " ", "t", "h", "e", " ", "m", "o", "d", "i", "f", "i", "e", "r", " ", "u", "s", "e", "d", " ", "o", "r", " ", "a", " ", "r", "e", "q", "u", "i", "r", "e", "d", " ", "m", "o", "d", "i", "f", "i", "e", "r", " ", "i", "s", " ", "m", "i", "s", "s", "i", "n", "g">>]>>

\* denialCodeMappings: the entries of the table in the order of the object
\* literal, which is the order Object.values and the dropdown list them in (no
\* key is an array index).  Of an entry, the key, the code and the description.
denialCodeMappings == <<
  [key |-> <<"C", "O", "-", "4">>, code |-> <<"C", "O", "-", "4">>,
   description |-> <<"T", "h", "e", " ", "p", "r", "o", "c", "e", "d", "u", "r", "e", " ", "c", "o", "d", "e", " ", "i", "s", " ", "i", "n", "c", "o", "n", "s", "i", "s", "t", "e", "n", "t", " ", "w", "i", "t", "h", " ", "t", "h", "e", " ", "m", "o", "d", "i", "f", "i", "e", "r", " ", "u", "s", "e", "d", " ", "o", "r", " ", "a", " ", "r", "e", "q", "u", "i", "r", "e", "d", " ", "m", "o", "d", "i", "f", "i", "e", "r", " ", "i", "s", " ", "m", "i", "s", "s", "i", "n", "g">>],
  [key |-> <<"C", "O", "-", "6">>, code |-> <<"C", "O", "-", "6">>,
   description |-> <<"T", "h", "e", " ", "p", "r", "o", "c", "e", "d", "u", "r", "e", "/", "r", "e", "v", "e", "n", "u", "e", " ", "c", "o", "d", "e", " ", "i", "s", " ", "i", "n", "c", "o", "n", "s", "i", "s", "t", "e", "n", "t", " ", "w", "i", "t", "h", " ", "t", "h", "e", " ", "p", "a", "t", "i", "e", "n", "t", "'", "s", " ", "a", "g", "e">>],
  [key |-> <<"C", "O", "-", "1", "1">>, code |-> <<"C", "O", "-", "1", "1">>,
   description |-> <<"T", "h", "e", " ", "d", "i", "a", "g", "n", "o", "s", "i", "s", " ", "i", "s", " ", "i", "n", "c", "o", "n", "s", "i", "s", "t", "e", "n", "t", " ", "w", "i", "t", "h", " ", "t", "h", "e", " ", "p", "r", "o", "c", "e", "d", "u", "r", "e">>],
  [key |-> <<"C", "O", "-", "1", "5">>, code |-> <<"C", "O", "-", "1", "5">>,
   description |-> <<"T", "h", "e", " ", "a", "u", "t", "h", "o", "r", "i", "z", "a", "t", "i", "o", "n", " ", "n", "u", "m", "b", "e", "r", " ", "i", "s", " ", "m", "i", "s", "s", "i", "n", "g", ",", " ", "i", "n", "v", "a", "l", "i", "d", ",", " ", "o", "r", " ", "d", "o", "e", "s", " ", "n", "o", "t", " ", "a", "p", "p", "l", "y", " ", "t", "o", " ", "t", "h", "e", " ", "b", "i", "l", "l", "e", "d", " ", "s", "e", "r", "v", "i", "c", "e", "s", " ", "o", "r", " ", "p", "r", "o", "v", "i", "d", "e", "r">>],
  [key |-> <<"C", "O", "-", "1", "6">>, code |-> <<"C", "O", "-", "1", "6">>,
   description |-> <<"C", "l", "a", "i", "m", "/", "s", "e", "r", "v", "i", "c", "e", " ", "l", "a", "c", "k", "s", " ", "i", "n", "f", "o", "r", "m", "a", "t", "i", "o", "n", " ", "o", "r", " ", "h", "a", "s", " ", "s", "u", "b", "m", "i", "s", "s", "i", "o", "n", "/", "b", "i", "l", "l", "i", "n", "g", " ", "e", "r", "r", "o", "r", "(", "s", ")">>],
  [key |-> <<"C", "O", "-", "1", "8">>, code |-> <<"C", "O", "-", "1", "8">>,
   description |-> <<"D", "u", "p", "l", "i", "c", "a", "t", "e", " ", "c", "l", "a", "i", "m", "/", "s", "e", "r", "v", "i", "c", "e">>],
  [key |-> <<"C", "O", "-", "2", "2">>, code |-> <<"C", "O", "-", "2", "2">>,
   description |-> <<"T", "h", "i", "s", " ", "c", "a", "r", "e", " ", "m", "a", "y", " ", "b", "e", " ", "c", "o", "v", "e", "r", "e", "d", " ", "b", "y", " ", "a", "n", "o", "t", "h", "e", "r", " ", "p", "a", "y", "e", "r", " ", "p", "e", "r", " ", "c", "o", "o", "r", "d", "i", "n", "a", "t", "i", "o", "n", " ", "o", "f", " ", "b", "e", "n", "e", "f", "i", "t", "s">>],
  [key |-> <<"C", "O", "-", "2", "3">>, code |-> <<"C", "O", "-", "2", "3">>,
   description |-> <<"T", "h", "e", " ", "i", "m", "p", "a", "c", "t", " ", "o", "f", " ", "p", "r", "i", "o", "r", " ", "p", "a", "y", "e", "r", "(", "s", ")", " ", "a", "d", "j", "u", "d", "i", "c", "a", "t", "i", "o", "n", " ", "i", "n", "c", "l", "u", "d", "i", "n", "g", " ", "p", "a", "y", "m", "e", "n", "t", "s", " ", "a", "n", "d", "/", "o", "r", " ", "a", "d", "j", "u", "s", "t", "m", "e", "n", "t", "s">>],
  [key |-> <<"C", "O", "-", "2", "7">>, code |-> <<"C", "O", "-", "2", "7">>,
   description |-> <<"E", "x", "p", "e", "n", "s", "e", "s", " ", "i", "n", "c", "u", "r", "r", "e", "d", " ", "a", "f", "t", "e", "r", " ", "c", "o", "v", "e", "r", "a", "g", "e", " ", "t", "e", "r", "m", "i", "n", "a", "t", "e", "d">>],
  [key |-> <<"C", "O", "-", "2", "9">>, code |-> <<"C", "O", "-", "2", "9">>,
   description |-> <<"T", "h", "e", " ", "t", "i", "m", "e", " ", "l", "i", "m", "i", "t", " ", "f", "o", "r", " ", "f", "i", "l", "i", "n", "g", " ", "h", "a", "s", " ", "e", "x", "p", "i", "r", "e", "d">>],
  [key |-> <<"C", "O", "-", "3", "1">>, code |-> <<"C", "O", "-", "3", "1">>,
   description |-> <<"P", "a", "t", "i", "e", "n", "t", " ", "c", "a", "n", "n", "o", "t", " ", "b", "e", " ", "i", "d", "e", "n", "t", "i", "f", "i", "e", "d", " ", "a", "s", " ", "o", "u", "r", " ", "i", "n", "s", "u", "r", "e", "d">>],
  [key |-> <<"C", "O", "-", "4", "5">>, code |-> <<"C", "O", "-", "4", "5">>,
   description |-> <<"C", "h", "a", "r", "g", "e", " ", "e", "x", "c", "e", "e", "d", "s", " ", "f", "e", "e", " ", "s", "c", "h", "e", "d", "u", "l", "e", "/", "m", "a", "x", "i", "m", "u", "m", " ", "a", "l", "l", "o", "w", "a", "b", "l", "e", " ", "o", "r", " ", "c", "o", "n", "t", "r", "a", "c", "t", "e", "d", "/", "l", "e", "g", "i", "s", "l", "a", "t", "e", "d", " ", "f", "e", "e", " ", "a", "r", "r", "a", "n", "g", "e", "m", "e", "n", "t">>],
  [key |-> <<"C", "O", "-", "5", "0">>, code |-> <<"C", "O", "-", "5", "0">>,
   description |-> <<"T", "h", "e", "s", "e", " ", "a", "r", "e", " ", "n", "o", "n", "-", "c", "o", "v", "e", "r", "e", "d", " ", "s", "e", "r", "v", "i", "c", "e", "s", " ", "b", "e", "c", "a", "u", "s", "e", " ", "t", "h", "i", "s", " ", "i", "s", " ", "n", "o", "t", " ", "d", "e", "e", "m", "e", "d", " ", "a", " ", "'", "m", "e", "d", "i", "c", "a", "l", " ", "n", "e", "c", "e", "s", "s", "i", "t", "y", "'">>],
  [key |-> <<"C", "O", "-", "9", "6">>, code |-> <<"C", "O", "-", "9", "6">>,
   description |-> <<"N", "o", "n", "-", "c", "o", "v", "e", "r", "e", "d", " ", "c", "h", "a", "r", "g", "e", "(", "s", ")", ".", " ", "A", "t", " ", "l", "e", "a", "s", "t", " ", "o", "n", "e", " ", "R", "e", "m", "a", "r", "k", " ", "C", "o", "d", "e", " ", "m", "u", "s", "t", " ", "b", "e", " ", "p", "r", "o", "v", "i", "d", "e", "d">>],
  [key |-> <<"C", "O", "-", "9", "7">>, code |-> <<"C", "O", "-", "9", "7">>,
   description |-> <<"T", "h", "e", " ", "b", "e", "n", "e", "f", "i", "t", " ", "f", "o", "r", " ", "t", "h", "i", "s", " ", "s", "e", "r", "v", "i", "c", "e", " ", "i", "s", " ", "i", "n", "c", "l", "u", "d", "e", "d", " ", "i", "n", " ", "t", "h", "e", " ", "p", "a", "y", "m", "e", "n", "t", "/", "a", "l", "l", "o", "w", "a", "n", "c", "e", " ", "f", "o", "r", " ", "a", "n", "o", "t", "h", "e", "r", " ", "s", "e", "r", "v", "i", "c", "e", "/", "p", "r", "o", "c", "e", "d", "u", "r", "e">>],
  [key |-> <<"C", "O", "-", "1", "0", "9">>, code |-> <<"C", "O", "-", "1", "0", "9">>,
   description |-> <<"C", "l", "a", "i", "m", " ", "n", "o", "t", " ", "c", "o", "v", "e", "r", "e", "d", " ", "b", "y", " ", "t", "h", "i", "s", " ", "p", "a", "y", "e", "r", "/", "c", "o", "n", "t", "r", "a", "c", "t", "o", "r", ".", " ", "Y", "o", "u", " ", "m", "u", "s", "t", " ", "s", "e", "n", "d", " ", "t", "h", "e", " ", "c", "l", "a", "i", "m", " ", "t", "o", " ", "t", "h", "e", " ", "c", "o", "r", "r", "e", "c", "t", " ", "p", "a", "y", "e", "r", "/", "c", "o", "n", "t", "r", "a", "c", "t", "o", "r">>],
  [key |-> <<"C", "O", "-", "1", "5", "1">>, code |-> <<"C", "O", "-", "1", "5", "1">>,
   description |-> <<"P", "a", "y", "m", "e", "n", "t", " ", "a", "d", "j", "u", "s", "t", "e", "d", " ", "b", "e", "c", "a", "u", "s", "e", " ", "t", "h", "e", " ", "p", "a", "y", "e", "r", " ", "d", "e", "e", "m", "s", " ", "t", "h", "e", " ", "i", "n", "f", "o", "r", "m", "a", "t", "i", "o", "n", " ", "s", "u", "b", "m", "i", "t", "t", "e", "d", " ", "d", "o", "e", "s", " ", "n", "o", "t", " ", "s", "u", "p", "p", "o", "r", "t", " ", "t", "h", "i", "s", " ", "m", "a", "n", "y", "/", "f", "r", "e", "q", "u", "e", "n", "c", "y", " ", "o", "f", " ", "s", "e", "r", "v", "i", "c", "e", "s">>],
  [key |-> <<"C", "O", "-", "1", "6", "7">>, code |-> <<"C", "O", "-", "1", "6", "7">>,
   description |-> <<"T", "h", "i", "s", " ", "(", "t", "h", "e", "s", "e", ")", " ", "d", "i", "a", "g", "n", "o", "s", "i", "s", "(", "e", "s", ")", " ", "i", "s", " ", "(", "a", "r", "e", ")", " ", "n", "o", "t", " ", "c", "o", "v", "e", "r", "e", "d">>],
  [key |-> <<"C", "O", "-", "1", "7", "0">>, code |-> <<"C", "O", "-", "1", "7", "0">>,
   description |-> <<"P", "a", "y", "m", "e", "n", "t", " ", "i", "s", " ", "d", "e", "n", "i", "e", "d", " ", "w", "h", "e", "n", " ", "p", "e", "r", "f", "o", "r", "m", "e", "d", "/", "b", "i", "l", "l", "e", "d", " ", "b", "y", " ", "t", "h", "i", "s", " ", "t", "y", "p", "e", " ", "o", "f", " ", "p", "r", "o", "v", "i", "d", "e", "r">>],
  [key |-> <<"P", "R", "-", "1">>, code |-> <<"P", "R", "-", "1">>,
   description |-> <<"D", "e", "d", "u", "c", "t", "i", "b", "l", "e", " ", "a", "m", "o", "u", "n", "t">>],
  [key |-> <<"P", "R", "-", "2">>, code |-> <<"P", "R", "-", "2">>,
   description |-> <<"C", "o", "i", "n", "s", "u", "r", "a", "n", "c", "e", " ", "a", "m", "o", "u", "n", "t">>],
  [key |-> <<"P", "R", "-", "3">>, code |-> <<"P", "R", "-", "3">>,
   description |-> <<"C", "o", "p", "a", "y", "m", "e", "n", "t", " ", "a", "m", "o", "u", "n", "t">>],
  [key |-> <<"P", "R", "-", "2", "0", "4">>, code |-> <<"P", "R", "-", "2", "0", "4">>,
   description |-> <<"T", "h", "i", "s", " ", "s", "e", "r", "v", "i", "c", "e", "/", "e", "q", "u", "i", "p", "m", "e", "n", "t", "/", "d", "r", "u", "g", " ", "i", "s", " ", "n", "o", "t", " ", "c", "o", "v", "e", "r", "e", "d", " ", "u", "n", "d", "e", "r", " ", "t", "h", "e", " ", "p", "a", "t", "i", "e", "n", "t", "'", "s", " ", "c", "u", "r", "r", "e", "n", "t", " ", "b", "e", "n", "e", "f", "i", "t", " ", "p", "l", "a", "n">>]>>

\* denialCodeMappings[denialCode], where there is an entry.
HasMapping(denialCode) ==
  \E i \in 1..Len(denialCodeMappings) : denialCodeMappings[i].key = denialCode
mappingOf(denialCode) ==
  denialCodeMappings[CHOOSE i \in 1..Len(denialCodeMappings) :
                       denialCodeMappings[i].key = denialCode]

\* The case labels of the switch of generateRCMComment.
caseCodes == {
  <<"C", "O", "-", "4">>,
  <<"C", "O", "-", "6">>,
  <<"C", "O", "-", "1", "1">>,
  <<"C", "O", "-", "1", "5">>,
  <<"C", "O", "-", "1", "6">>,
  <<"C", "O", "-", "1", "8">>,
  <<"C", "O", "-", "2", "2">>,
  <<"C", "O", "-", "2", "3">>,
  <<"C", "O", "-", "2", "7">>,
  <<"C", "O", "-", "2", "9">>,
  <<"C", "O", "-", "3", "1">>,
  <<"C", "O", "-", "4", "5">>,
  <<"C", "O", "-", "5", "0">>,
  <<"C", "O", "-", "9", "6">>,
  <<"C", "O", "-", "9", "7">>,
  <<"C", "O", "-", "1", "0", "9">>,
  <<"C", "O", "-", "1", "5", "1">>,
  <<"C", "O", "-", "1", "6", "7">>,
  <<"C", "O", "-", "1", "7", "0">>,
  <<"P", "R", "-", "1">>,
  <<"P", "R", "-", "2">>,
  <<"P", "R", "-", "3">>,
  <<"P", "R", "-", "2", "0", "4">>}

\* The template of the default branch of the switch.
genericComment == <<"D", "e", "n", "i", "a", "l", " ", "d", "o", "c", "u", "m", "e", "n", "t", "e", "d", " ", "p", "e", "r", " ", "r", "e", "p", " ", "g", "u", "i", "d", "a", "n", "c", "e">>

\* Mutant: every denial code is answered with the generic template.
specificComment_generic(formData) == genericComment

\* The switch of generateRCMComment over formData.denialCode.
specificComment(formData) ==
  LET code == Prop(formData, "denialCode")
  IN CASE
       code = <<"C", "O", "-", "4">> ->
            <<"M", "o", "d", "i", "f", "i", "e", "r", " ", "i", "s", "s", "u", "e", " ", "i", "d", "e", "n", "t", "i", "f", "i", "e", "d", ".", " ", "P", "r", "o", "c", "e", "d", "u", "r", "e", " ", "c", "o", "d", "e", " ", "r", "e", "q", "u", "i", "r", "e", "s", " ", "c", "o", "r", "r", "e", "c", "t", " ", "m", "o", "d", "i", "f", "i", "e", "r", " ", "f", "o", "r", " ", "r", "e", "i", "m", "b", "u", "r", "s", "e", "m", "e", "n", "t">>
       [] code = <<"C", "O", "-", "6">> ->
            <<"A", "g", "e", "-", "r", "e", "l", "a", "t", "e", "d", " ", "p", "r", "o", "c", "e", "d", "u", "r", "e", " ", "c", "o", "d", "e", " ", "i", "s", "s", "u", "e", ".", " ", "S", "e", "r", "v", "i", "c", "e", " ", "n", "o", "t", " ", "a", "p", "p", "r", "o", "p", "r", "i", "a", "t", "e", " ", "f", "o", "r", " ", "p", "a", "t", "i", "e", "n", "t", " ", "a", "g", "e">>
       [] code = <<"C", "O", "-", "1", "1">> ->
            <<"D", "i", "a", "g", "n", "o", "s", "i", "s", "-", "p", "r", "o", "c", "e", "d", "u", "r", "e", " ", "m", "i", "s", "m", "a", "t", "c", "h", ".", " ", "A", "d", "d", "i", "t", "i", "o", "n", "a", "l", " ", "d", "o", "c", "u", "m", "e", "n", "t", "a", "t", "i", "o", "n", " ", "r", "e", "q", "u", "i", "r", "e", "d", " ", "t", "o", " ", "s", "u", "p", "p", "o", "r", "t", " ", "p", "r", "o", "c", "e", "d", "u", "r", "e">>
       [] code = <<"C", "O", "-", "1", "5">> ->
            <<"A", "u", "t", "h", "o", "r", "i", "z", "a", "t", "i", "o", "n", " ", "m", "i", "s", "s", "i", "n", "g", " ", "o", "r", " ", "i", "n", "v", "a", "l", "i", "d", ".", " ", "V", "a", "l", "i", "d", " ", "a", "u", "t", "h", "o", "r", "i", "z", "a", "t", "i", "o", "n", " ", "r", "e", "q", "u", "i", "r", "e", "d", " ", "f", "o", "r", " ", "r", "e", "i", "m", "b", "u", "r", "s", "e", "m", "e", "n", "t">>
       [] code = <<"C", "O", "-", "1", "6">> ->
            <<"M", "i", "s", "s", "i", "n", "g", "/", "i", "n", "c", "o", "r", "r", "e", "c", "t", " ", "i", "n", "f", "o", "r", "m", "a", "t", "i", "o", "n", " ", "i", "d", "e", "n", "t", "i", "f", "i", "e", "d", ".", " ", "C", "o", "r", "r", "e", "c", "t", "i", "o", "n", " ", "a", "n", "d", " ", "r", "e", "s", "u", "b", "m", "i", "s", "s", "i", "o", "n", " ", "r", "e", "q", "u", "i", "r", "e", "d">>
       [] code = <<"C", "O", "-", "1", "8">> ->
            <<"D", "u", "p", "l", "i", "c", "a", "t", "e", " ", "c", "l", "a", "i", "m", " ", "i", "d", "e", "n", "t", "i", "f", "i", "e", "d", ".", " ", "O", "r", "i", "g", "i", "n", "a", "l", " ", "c", "l", "a", "i", "m", " ", "a", "l", "r", "e", "a", "d", "y", " ", "p", "r", "o", "c", "e", "s", "s", "e", "d">>
       [] code = <<"C", "O", "-", "2", "2">> ->
            <<"C", "O", "B", " ", "i", "s", "s", "u", "e", " ", "-", " ", "o", "t", "h", "e", "r", " ", "p", "a", "y", "e", "r", " ", "p", "r", "i", "m", "a", "r", "y", ".", " ", "P", "r", "i", "m", "a", "r", "y", " ", "i", "n", "s", "u", "r", "a", "n", "c", "e", " ", "m", "u", "s", "t", " ", "b", "e", " ", "b", "i", "l", "l", "e", "d", " ", "f", "i", "r", "s", "t">>
       [] code = <<"C", "O", "-", "2", "3">> ->
            <<"P", "r", "i", "o", "r", " ", "p", "a", "y", "e", "r", " ", "a", "d", "j", "u", "d", "i", "c", "a", "t", "i", "o", "n", " ", "a", "f", "f", "e", "c", "t", "s", " ", "p", "a", "y", "m", "e", "n", "t", ".", " ", "R", "e", "v", "i", "e", "w", " ", "p", "r", "i", "m", "a", "r", "y", " ", "p", "a", "y", "e", "r", " ", "p", "a", "y", "m", "e", "n", "t", " ", "d", "e", "t", "a", "i", "l", "s">>
       [] code = <<"C", "O", "-", "2", "7">> ->
            <<"E", "l", "i", "g", "i", "b", "i", "l", "i", "t", "y", " ">> \o OrText(Prop(formData, "eligibilityStatus"), <<"i", "n", "a", "c", "t", "i", "v", "e">>)
            \o <<" ", "a", "s", " ", "o", "f", " ">> \o OrText(Prop(formData, "eligibilityFromDate"), <<"[", "D", "a", "t", "e", "]">>)
            \o <<".", " ", "C", "o", "v", "e", "r", "a", "g", "e", " ", "t", "e", "r", "m", "i", "n", "a", "t", "e", "d", " ", "p", "r", "i", "o", "r", " ", "t", "o", " ", "D", "O", "S", ".", " ", "P", "a", "t", "i", "e", "n", "t", " ", "r", "e", "s", "p", "o", "n", "s", "i", "b", "i", "l", "i", "t", "y", " ", "c", "o", "n", "f", "i", "r", "m", "e", "d">>
       [] code = <<"C", "O", "-", "2", "9">> ->
            <<"T", "i", "m", "e", "l", "y", " ", "f", "i", "l", "i", "n", "g", " ", "d", "e", "a", "d", "l", "i", "n", "e", " ", "e", "x", "c", "e", "e", "d", "e", "d", ".", " ", "C", "l", "a", "i", "m", " ", "s", "u", "b", "m", "i", "t", "t", "e", "d", " ", "b", "e", "y", "o", "n", "d", " ", "p", "a", "y", "e", "r", " ", "d", "e", "a", "d", "l", "i", "n", "e">>
       [] code = <<"C", "O", "-", "3", "1">> ->
            <<"P", "a", "t", "i", "e", "n", "t", " ", "i", "d", "e", "n", "t", "i", "f", "i", "c", "a", "t", "i", "o", "n", " ", "i", "s", "s", "u", "e", ".", " ", "M", "e", "m", "b", "e", "r", " ", "d", "e", "m", "o", "g", "r", "a", "p", "h", "i", "c", "s", " ", "r", "e", "q", "u", "i", "r", "e", " ", "v", "e", "r", "i", "f", "i", "c", "a", "t", "i", "o", "n">>
       [] code = <<"C", "O", "-", "4", "5">> ->
            <<"C", "h", "a", "r", "g", "e", " ", "e", "x", "c", "e", "e", "d", "s", " ", "f", "e", "e", " ", "s", "c", "h", "e", "d", "u", "l", "e", ".", " ", "P", "a", "y", "m", "e", "n", "t", " ", "a", "d", "j", "u", "s", "t", "e", "d", " ", "t", "o", " ", "c", "o", "n", "t", "r", "a", "c", "t", "e", "d", " ", "r", "a", "t", "e">>
       [] code = <<"C", "O", "-", "5", "0">> ->
            <<"M", "e", "d", "i", "c", "a", "l", " ", "n", "e", "c", "e", "s", "s", "i", "t", "y", " ", "c", "r", "i", "t", "e", "r", "i", "a", " ", "n", "o", "t", " ", "m", "e", "t", " ", "p", "e", "r", " ", "p", "a", "y", "e", "r", " ", "g", "u", "i", "d", "e", "l", "i", "n", "e", "s", ".", " ", "A", "d", "d", "i", "t", "i", "o", "n", "a", "l", " ", "d", "o", "c", "u", "m", "e", "n", "t", "a", "t", "i", "o", "n", " ", "r", "e", "q", "u", "i", "r", "e", "d", " ", "f", "o", "r", " ", "a", "p", "p", "e", "a", "l">>
       [] code = <<"C", "O", "-", "9", "6">> ->
            <<"N", "o", "n", "-", "c", "o", "v", "e", "r", "e", "d", " ", "s", "e", "r", "v", "i", "c", "e", " ", "p", "e", "r", " ", "p", "l", "a", "n", " ", "b", "e", "n", "e", "f", "i", "t", "s", ".", " ", "P", "l", "a", "n", " ", "e", "x", "c", "l", "u", "s", "i", "o", "n", " ", "a", "p", "p", "l", "i", "e", "s">>
       [] code = <<"C", "O", "-", "9", "7">> ->
            <<"S", "e", "r", "v", "i", "c", "e", " ", "b", "u", "n", "d", "l", "e", "d", " ", "w", "i", "t", "h", " ", "p", "r", "i", "m", "a", "r", "y", " ", "p", "r", "o", "c", "e", "d", "u", "r", "e", " ", "p", "e", "r", " ", "p", "a", "y", "e", "r", " ", "p", "o", "l", "i", "c", "y", ".", " ", "N", "o", " ", "a", "d", "d", "i", "t", "i", "o", "n", "a", "l", " ", "p", "a", "y", "m", "e", "n", "t", " ", "a", "v", "a", "i", "l", "a", "b", "l", "e">>
       [] code = <<"C", "O", "-", "1", "0", "9">> ->
            <<"W", "r", "o", "n", "g", " ", "p", "a", "y", "e", "r", " ", "-", " ", "c", "l", "a", "i", "m", " ", "m", "u", "s", "t", " ", "g", "o", " ", "t", "o", " ", "c", "o", "r", "r", "e", "c", "t", " ", "i", "n", "s", "u", "r", "a", "n", "c", "e", " ", "c", "a", "r", "r", "i", "e", "r">>
       [] code = <<"C", "O", "-", "1", "5", "1">> ->
            <<"S", "e", "r", "v", "i", "c", "e", " ", "f", "r", "e", "q", "u", "e", "n", "c", "y", " ", "e", "x", "c", "e", "e", "d", "s", " ", "g", "u", "i", "d", "e", "l", "i", "n", "e", "s", ".", " ", "M", "e", "d", "i", "c", "a", "l", " ", "n", "e", "c", "e", "s", "s", "i", "t", "y", " ", "r", "e", "q", "u", "i", "r", "e", "d", " ", "f", "o", "r", " ", "a", "d", "d", "i", "t", "i", "o", "n", "a", "l", " ", "u", "n", "i", "t", "s">>
       [] code = <<"C", "O", "-", "1", "6", "7">> ->
            <<"D", "i", "a", "g", "n", "o", "s", "i", "s", " ", "n", "o", "t", " ", "c", "o", "v", "e", "r", "e", "d", " ", "p", "e", "r", " ", "p", "l", "a", "n", " ", "b", "e", "n", "e", "f", "i", "t", "s", ".", " ", "R", "e", "v", "i", "e", "w", " ", "c", "o", "v", "e", "r", "e", "d", " ", "d", "i", "a", "g", "n", "o", "s", "i", "s", " ", "l", "i", "s", "t">>
       [] code = <<"C", "O", "-", "1", "7", "0">> ->
            <<"P", "r", "o", "v", "i", "d", "e", "r", " ", "t", "y", "p", "e", " ", "r", "e", "s", "t", "r", "i", "c", "t", "i", "o", "n", ".", " ", "S", "e", "r", "v", "i", "c", "e", " ", "n", "o", "t", " ", "c", "o", "v", "e", "r", "e", "d", " ", "w", "h", "e", "n", " ", "p", "e", "r", "f", "o", "r", "m", "e", "d", " ", "b", "y", " ", "t", "h", "i", "s", " ", "p", "r", "o", "v", "i", "d", "e", "r", " ", "t", "y", "p", "e">>
       [] code = <<"P", "R", "-", "1">> ->
            <<"P", "a", "t", "i", "e", "n", "t", " ", "d", "e", "d", "u", "c", "t", "i", "b", "l", "e", " ", "r", "e", "s", "p", "o", "n", "s", "i", "b", "i", "l", "i", "t", "y", ".", " ", "A", "n", "n", "u", "a", "l", " ", "d", "e", "d", "u", "c", "t", "i", "b", "l", "e", " ", "n", "o", "t", " ", "m", "e", "t">>
       [] code = <<"P", "R", "-", "2">> ->
            <<"P", "a", "t", "i", "e", "n", "t", " ", "c", "o", "i", "n", "s", "u", "r", "a", "n", "c", "e", " ", "r", "e", "s", "p", "o", "n", "s", "i", "b", "i", "l", "i", "t", "y", " ", "p", "e", "r", " ", "p", "l", "a", "n", " ", "b", "e", "n", "e", "f", "i", "t", "s">>
       [] code = <<"P", "R", "-", "3">> ->
            <<"P", "a", "t", "i", "e", "n", "t", " ", "c", "o", "p", "a", "y", " ", "r", "e", "s", "p", "o", "n", "s", "i", "b", "i", "l", "i", "t", "y", " ", "c", "o", "n", "f", "i", "r", "m", "e", "d">>
       [] code = <<"P", "R", "-", "2", "0", "4">> ->
            <<"S", "e", "r", "v", "i", "c", "e", " ", "n", "o", "t", " ", "c", "o", "v", "e", "r", "e", "d", " ", "u", "n", "d", "e", "r", " ", "c", "u", "r", "r", "e", "n", "t", " ", "p", "l", "a", "n", " ", "b", "e", "n", "e", "f", "i", "t", "s", ".", " ", "P", "l", "a", "n", " ", "e", "x", "c", "l", "u", "s", "i", "o", "n", " ", "c", "o", "n", "f", "i", "r", "m", "e", "d">>
       [] OTHER -> genericComment

\* Mutant: the comment is stamped with the time at which it is generated.
generateRCMComment_timestamped(formData) ==
  <<"S", "p", "o", "k", "e", " ", "w", "i", "t", "h", " ">> \o OrText(Prop(formData, "repName"), <<"[", "R", "e", "p", " ", "N", "a", "m", "e", "]">>) \o <<":", " ">>
  \o specificComment(formData) \o <<".", " ">> \o toISOString(now)

\* Mutant: the additional notes are left out of the comment.
generateRCMComment_noNotes(formData) ==
  <<"S", "p", "o", "k", "e", " ", "w", "i", "t", "h", " ">> \o OrText(Prop(formData, "repName"), <<"[", "R", "e", "p", " ", "N", "a", "m", "e", "]">>) \o <<" ", "f", "r", "o", "m", " ">>
  \o OrText(getInsuranceLabel(Prop(formData, "insuranceName")), <<"[", "I", "n", "s", "u", "r", "a", "n", "c", "e", "]">>) \o <<" ", "-", " ">>
  \o OrText(Prop(formData, "denialCode"), <<"[", "C", "o", "d", "e", "]">>) \o <<":", " ">> \o specificComment(formData) \o <<".">>
  \o <<" ", "C", "a", "l", "l", " ", "r", "e", "f", " ", "#">> \o OrText(Prop(formData, "callReference"), <<"[", "R", "e", "f", "e", "r", "e", "n", "c", "e", "]">>)

\* Mutant: a missing value leaves its slot of the comment empty.
generateRCMComment_noPlaceholders(formData) ==
  <<"S", "p", "o", "k", "e", " ", "w", "i", "t", "h", " ">> \o Prop(formData, "repName") \o <<" ", "f", "r", "o", "m", " ">>
  \o getInsuranceLabel(Prop(formData, "insuranceName")) \o <<" ", "-", " ">>
  \o Prop(formData, "denialCode") \o <<":", " ">> \o specificComment(formData) \o <<".">>
  \o <<" ", "C", "a", "l", "l", " ", "r", "e", "f", " ", "#">> \o Prop(formData, "callReference")

\* generateRCMComment(formData)
generateRCMComment(formData) ==
  LET repName == OrText(Prop(formData, "repName"), <<"[", "R", "e", "p", " ", "N", "a", "m", "e", "]">>)
      insuranceName == OrText(getInsuranceLabel(Prop(formData, "insuranceName")), <<"[", "I", "n", "s", "u", "r", "a", "n", "c", "e", "]">>)
      denialCode == OrText(Prop(formData, "denialCode"), <<"[", "C", "o", "d", "e", "]">>)
      callReference == OrText(Prop(formData, "callReference"), <<"[", "R", "e", "f", "e", "r", "e", "n", "c", "e", "]">>)
      improvedNotes == parseQAResponse(Prop(formData, "additionalNotes"), Prop(formData, "denialCode"))
      additionalInfo == IF improvedNotes # <<>>
                        THEN <<" ", "A", "d", "d", "i", "t", "i", "o", "n", "a", "l", " ", "n", "o", "t", "e", "s", ":", " ">> \o improvedNotes ELSE <<>>
  IN <<"S", "p", "o", "k", "e", " ", "w", "i", "t", "h", " ">> \o repName \o <<" ", "f", "r", "o", "m", " ">> \o insuranceName \o <<" ", "-", " ">> \o denialCode
     \o <<":", " ">> \o specificComment(formData) \o <<".">> \o additionalInfo
     \o <<" ", "C", "a", "l", "l", " ", "r", "e", "f", " ", "#">> \o callReference

\* ----------------------------------------------------------- specification
\* new MemStorage(): an empty map, the counter at 1.
ServerInit ==
  /\ patientAccounts = <<>>
  /\ currentAccountId = 1
  /\ now = 0
  /\ resp = Response(Request("none", <<>>, EmptyObj), 0, EmptyObj, <<>>)
  /\ created = <<>>

\* Nothing has been exported.
NoExport == [headers |-> <<>>, csvRows |-> <<>>, csvContent |-> <<>>]

\* The Generate button has not been pressed: useState("").
CommentInit ==
  /\ generatedComment = <<>>
  /\ generated = {}
  /\ exported = NoExport

\* ------------------------------------------------------------- the client
FormKeys == {"patientName", "accountNumber", "insuranceName", "repName", "callReference",
             "denialCode", "denialDescription", "dateOfService", "eligibilityFromDate",
             "eligibilityStatus", "additionalNotes"}

\* useForm({ defaultValues }): every field the empty string.
defaultValues == [k \in FormKeys |-> <<>>]

\* value || "" for a field of an account.
OrEmpty(val) == IF val.t = "string" THEN val.v ELSE <<>>

\* Mutant: the form is saved with rep name and call reference cleared.
getValues_cleared ==
  [k \in FormKeys |-> Str(IF k \in {"repName", "callReference"} THEN <<>> ELSE form[k])]

\* form.getValues(), as the body of a request.
getValues == [k \in FormKeys |-> Str(form[k])]

\* const accounts = persistedAccounts.length > 0 ? persistedAccounts : serverAccounts
accountsOf(persisted, fetched) == IF persisted # <<>> THEN persisted ELSE fetched
accounts == accountsOf(persistedAccounts, serverAccounts)

HasAccount(accs, id) == \E i \in 1..Len(accs) : Get(accs[i], "id") = Num(id)
\* accounts.find(account => account.id === id), where there is one.
FindAccount(accs, id) == accs[CHOOSE i \in 1..Len(accs) :
                                /\ Get(accs[i], "id") = Num(id)
                                /\ \A j \in 1..(i - 1) : Get(accs[j], "id") # Num(id)]

\* The form-load effect, run for an activeTabId of id: the form is reset to the
\* account's values only when the patient name or account number differ.
loadActiveAccount(accs, id, f) ==
  IF ~HasAccount(accs, id) THEN f
  ELSE LET activeAccount == FindAccount(accs, id)
           isDifferentAccount ==
             \/ Str(f["patientName"]) # Get(activeAccount, "patientName")
             \/ Str(f["accountNumber"]) # Get(activeAccount, "accountNumber")
       IN IF isDifferentAccount
          THEN [k \in FormKeys |-> OrEmpty(Get(activeAccount, k))]
          ELSE f

\* The effects that follow a state change, to their fixed point: the save
\* effect persists a non-empty account list, the form-load effect runs for
\* every change of activeTabId, and the auto-set effect makes the first
\* account active when none is.  oldActive is activeTabId before the handler,
\* setActive the value the handler set.
Rendered(persisted, fetched, oldActive, setActive, f) ==
  LET accs == accountsOf(persisted, fetched)
      f1 == IF setActive # oldActive THEN loadActiveAccount(accs, setActive, f) ELSE f
      auto == IF accs # <<>> /\ setActive = 0 THEN accs[1]["id"].n ELSE setActive
      f2 == IF auto # setActive THEN loadActiveAccount(accs, auto, f1) ELSE f1
  IN [persisted |-> IF accs # <<>> THEN accs ELSE persisted, active |-> auto, form |-> f2]

\* The save effect, which runs when sessionId or accounts changed: the session
\* id is stored, and the account list when it is not empty.
saveToSessionStorage(sid, accs) ==
  [session |-> sid, accounts |-> IF accs # <<>> THEN accs ELSE sessionStorage.accounts]

\* clearSessionStorage(): both keys are removed.
NoStorage == [session |-> <<>>, accounts |-> <<>>]

Render(persisted, fetched, setActive, f) ==
  LET r == Rendered(persisted, fetched, activeTabId, setActive, f)
  IN /\ persistedAccounts' = r.persisted
     /\ serverAccounts' = fetched
     /\ sessionStorage' = IF persisted # persistedAccounts \/ fetched # serverAccounts
                          THEN saveToSessionStorage(sessionId, accountsOf(persisted, fetched))
                          ELSE sessionStorage
     /\ activeTabId' = r.active
     /\ form' = r.form

\* The render that follows the onSuccess of a mutation, which has set
\* persistedAccounts to a new list and written that list to sessionStorage
\* itself, empty or not; the save effect then runs for the new list.
RenderSaved(persisted, fetched, setActive, f) ==
  LET r == Rendered(persisted, fetched, activeTabId, setActive, f)
  IN /\ persistedAccounts' = r.persisted
     /\ serverAccounts' = fetched
     /\ sessionStorage' = [session |-> sessionId, accounts |-> accountsOf(persisted, fetched)]
     /\ activeTabId' = r.active
     /\ form' = r.form

\* new Date().getFullYear(); the instants modelled lie within one year.
getFullYear(t) == <<"2", "0", "2", "5">>

\* String(n).padStart(3, '0')
padStart3(n) ==
  LET digits == NumToChars(n)
  IN IF Len(digits) >= 3 THEN digits
     ELSE [i \in 1..(3 - Len(digits)) |-> "0"] \o digits

\* The record that Add Patient posts, n being accounts.length at the click.
newAccountData(n, f) ==
  [patientName |-> Str(<<"N", "e", "w", " ", "P", "a", "t", "i", "e", "n", "t">>),
   accountNumber |-> Str(<<"A", "C", "C", "-">> \o getFullYear(now) \o <<"-">> \o padStart3(n + 1)),
   insuranceName |-> Str(<<>>),
   repName |-> Str(f["repName"]),
   callReference |-> Str(f["callReference"]),
   sessionId |-> Str(sessionId)]

\* What an Add Patient click found: the active tab, whether its account was
\* in the list, the form's rep name and call reference, and the rep name and
\* call reference of each stored and each listed record.
RepAndRef(acc) == [repName |-> Get(acc, "repName"), callReference |-> Get(acc, "callReference")]
NoClick == [clicked |-> FALSE, active |-> 0, shown |-> FALSE,
            repName |-> <<>>, callReference |-> <<>>, stored |-> <<>>, listed |-> <<>>]
Click ==
  [clicked |-> TRUE, active |-> activeTabId, shown |-> HasAccount(accounts, activeTabId),
   repName |-> form["repName"], callReference |-> form["callReference"],
   stored |-> [i \in 1..Len(patientAccounts) |->
                 [id |-> patientAccounts[i].key, was |-> RepAndRef(patientAccounts[i].value)]],
   listed |-> [i \in 1..Len(accounts) |->
                 [id |-> accounts[i]["id"].n, was |-> RepAndRef(accounts[i])]]]

\* What runs after an awaited saveCurrentFormData, and the click it belongs to.
NoCont == [k |-> "none", n |-> 0, target |-> 0, click |-> NoClick]
AddCont(n, click) == [k |-> "add", n |-> n, target |-> 0, click |-> click]
SwitchCont(target) == [k |-> "switch", n |-> 0, target |-> target, click |-> NoClick]
\* The create that addNewTab sends, for a click.
CreateOf(click) == [k |-> "none", n |-> 0, target |-> 0, click |-> click]

\* A request in flight; the server turns it into its response.
Message(mid, kind, id, body, cont) ==
  [mid |-> mid, kind |-> kind, phase |-> "req", id |-> id, body |-> body,
   status |-> 0, result |-> EmptyObj, cont |-> cont]

\* The requests explored are those sent while fewer than MaxInflight are in
\* flight; a request is told from the others in flight by its number.
CanSend == Cardinality(net) < MaxInflight
NewMid == CHOOSE i \in 1..(Cardinality(net) + 1) : i \notin {m.mid : m \in net}

\* Add Patient clicks so far that have led or will lead to a create.
Adds ==
  (currentAccountId - 1)
  + Cardinality({m \in net : m.kind = "create" /\ m.phase = "req"})
  + Cardinality({m \in net : m.cont.k = "add"})

\* addNewTab: the current form is saved first when a tab is active, and the
\* create is sent once that save has settled.
addNewTab ==
  /\ net' = net \cup
       {IF activeTabId # 0
        THEN Message(NewMid, "update", activeTabId, getValues, AddCont(Len(accounts), Click))
        ELSE Message(NewMid, "create", 0, newAccountData(Len(accounts), form), CreateOf(Click))}
  /\ UNCHANGED <<sessionId, reloading, ended, activeTabId, form, persistedAccounts, serverAccounts, sessionStorage, entered>>
  /\ UNCHANGED serverVars

\* Mutant: the tab is switched without a save.
SwitchSaves_never(accountId) == FALSE

\* Whether switchTab(accountId) saves the form first.
SwitchSaves(accountId) == activeTabId # 0 /\ activeTabId # accountId

\* switchTab(accountId): the form is saved first when another tab is active.
switchTab(accountId) ==
  /\ HasAccount(accounts, accountId)
  /\ IF SwitchSaves(accountId)
     THEN /\ net' = net \cup
               {Message(NewMid, "update", activeTabId, getValues, SwitchCont(accountId))}
          /\ UNCHANGED <<activeTabId, form, persistedAccounts, serverAccounts, sessionStorage>>
     ELSE /\ Render(persistedAccounts, serverAccounts, accountId, form)
          /\ UNCHANGED net
  /\ UNCHANGED <<sessionId, reloading, ended, entered>>
  /\ UNCHANGED serverVars

\* closeTab(accountId): the delete is sent, and the first remaining account
\* becomes active when the closed tab was the active one.
closeTab(accountId) ==
  /\ HasAccount(accounts, accountId)
  /\ net' = net \cup {Message(NewMid, "delete", accountId, EmptyObj, NoCont)}
  /\ LET remainingAccounts == SelectSeq(accounts, LAMBDA acc : Get(acc, "id") # Num(accountId))
     IN Render(persistedAccounts, serverAccounts,
               IF activeTabId = accountId
               THEN (IF remainingAccounts # <<>> THEN remainingAccounts[1]["id"].n ELSE 0)
               ELSE activeTabId,
               form)
  /\ UNCHANGED <<sessionId, reloading, ended, entered>>
  /\ UNCHANGED serverVars

\* The onChange of a text input or the onSelect of a list of the form, which
\* is shown while the active account is in the list: the field is set and the
\* one field is sent.
editField(k, text) ==
  /\ HasAccount(accounts, activeTabId)
  /\ form' = [form EXCEPT ![k] = text]
  /\ net' = net \cup {Message(NewMid, "update", activeTabId, Obj1(k, Str(text)), NoCont)}
  /\ entered' = entered \cup {<<activeTabId, k, text>>}
  /\ UNCHANGED <<sessionId, reloading, ended, activeTabId, persistedAccounts, serverAccounts, sessionStorage>>
  /\ UNCHANGED serverVars

\* The dateRegex of formSchema: /^(0[1-9]|1[0-2])\/(0[1-9]|[12][0-9]|3[01])\/\d{4}$/
dateRegex(val) ==
  /\ Len(val) = 10
  /\ \/ val[1] = "0" /\ val[2] \in DigitSet \ {"0"}
     \/ val[1] = "1" /\ val[2] \in {"0", "1", "2"}
  /\ val[3] = "/"
  /\ \/ val[4] = "0" /\ val[5] \in DigitSet \ {"0"}
     \/ val[4] \in {"1", "2"} /\ val[5] \in DigitSet
     \/ val[4] = "3" /\ val[5] \in {"0", "1"}
  /\ val[6] = "/"
  /\ \A i \in 7..10 : val[i] \in DigitSet

\* formSchema.safeParse(values).success: the three required fields are not
\* empty, and each date is empty or matches dateRegex.
formSchema(values) ==
  /\ \A k \in {"patientName", "accountNumber", "insuranceName"} : values[k] # <<>>
  /\ \A k \in {"dateOfService", "eligibilityFromDate"} : values[k] = <<>> \/ dateRegex(values[k])

\* value.slice(from, to), with 0 <= from.
slice(value, from, to) == SubSeq(value, from + 1, IF to < Len(value) THEN to ELSE Len(value))

\* The auto-format of the onChange of a date input: the digits of the text,
\* with a slash after the second and after the fourth.
autoFormat(text) ==
  LET digits == SelectSeq(text, IsDigit)
      v1 == IF Len(digits) >= 3
            THEN slice(digits, 0, 2) \o <<"/">> \o slice(digits, 2, Len(digits))
            ELSE digits
  IN IF Len(v1) >= 6 THEN slice(v1, 0, 5) \o <<"/">> \o slice(v1, 5, 9) ELSE v1

\* The onChange of a date input (Date of Service, Eligibility From Date): the
\* formatted value is put into the form, and it is sent once it has ten
\* characters.
editDate(k, text) ==
  LET value == autoFormat(text)
  IN /\ HasAccount(accounts, activeTabId)
     /\ form' = [form EXCEPT ![k] = value]
     /\ net' = net \cup
          (IF Len(value) = 10
           THEN {Message(NewMid, "update", activeTabId, Obj1(k, Str(value)), NoCont)}
           ELSE {})
     /\ entered' = entered \cup {<<activeTabId, k, value>>}
     /\ UNCHANGED <<sessionId, reloading, ended, activeTabId, persistedAccounts, serverAccounts, sessionStorage>>
     /\ UNCHANGED serverVars

\* String(n).padStart(2, '0')
padStart2(n) == IF n < 10 THEN <<"0">> \o NumToChars(n) ELSE NumToChars(n)

\* The onSelect of the calendar of a date field, for a Date of the given
\* getFullYear(), getMonth() and getDate().
selectDate(k, date) ==
  LET formattedDate == padStart2(date.month + 1) \o <<"/">> \o padStart2(date.date)
                       \o <<"/">> \o NumToChars(date.year)
  IN /\ HasAccount(accounts, activeTabId)
     /\ form' = [form EXCEPT ![k] = formattedDate]
     /\ net' = net \cup {Message(NewMid, "update", activeTabId, Obj1(k, Str(formattedDate)), NoCont)}
     /\ entered' = entered \cup {<<activeTabId, k, formattedDate>>}
     /\ UNCHANGED <<sessionId, reloading, ended, activeTabId, persistedAccounts, serverAccounts, sessionStorage>>
     /\ UNCHANGED serverVars

\* form.handleSubmit(onSubmit): the values are sent when they pass formSchema.
onSubmit ==
  /\ HasAccount(accounts, activeTabId)
  /\ formSchema(form)
  /\ net' = net \cup {Message(NewMid, "update", activeTabId, getValues, NoCont)}
  /\ UNCHANGED <<sessionId, reloading, ended, activeTabId, form, persistedAccounts, serverAccounts, sessionStorage, entered>>
  /\ UNCHANGED serverVars

\* The server handles a request of the client; apiRequest sends the id of an
\* account as the decimal text in the path.
Answered(m) == [m EXCEPT !.phase = "resp", !.status = resp'.status, !.result = resp'.body]

serve(m) ==
  /\ m.phase = "req"
  /\ CASE m.kind = "create" -> PostAccount(m.body)
       [] m.kind = "update" -> PatchAccount(NumToChars(m.id), m.body)
       [] m.kind = "delete" -> DeleteAccount(NumToChars(m.id))
  /\ net' = (net \ {m}) \cup {Answered(m)}
  /\ UNCHANGED <<sessionId, reloading, ended, activeTabId, form, persistedAccounts, serverAccounts, sessionStorage, entered>>

\* apiRequest throws on a status outside 2xx, and the mutation then runs onError.
Ok(m) == m.status \in 200..299

\* createAccountMutation settles: onSuccess appends the new account and makes
\* it the active tab.
createSettled(m) ==
  /\ m.phase = "resp" /\ m.kind = "create"
  /\ net' = net \ {m}
  /\ IF Ok(m)
     THEN RenderSaved(Append(accounts, m.result), serverAccounts, m.result["id"].n, form)
     ELSE UNCHANGED <<activeTabId, form, persistedAccounts, serverAccounts, sessionStorage>>
  /\ UNCHANGED <<sessionId, reloading, ended, entered>>
  /\ UNCHANGED serverVars

\* updateAccountMutation settles: onSuccess replaces the account in the list;
\* then the function that awaited the save goes on, whether it succeeded or not.
updateSettled(m) ==
  /\ m.phase = "resp" /\ m.kind = "update"
  /\ net' = (net \ {m}) \cup
       (IF m.cont.k = "add"
        THEN {Message(m.mid, "create", 0, newAccountData(m.cont.n, form), CreateOf(m.cont.click))}
        ELSE {})
  /\ LET updatedAccounts ==
           [i \in 1..Len(accounts) |->
              IF Get(accounts[i], "id") = Get(m.result, "id") THEN m.result ELSE accounts[i]]
         setActive == IF m.cont.k = "switch" THEN m.cont.target ELSE activeTabId
     IN IF Ok(m)
        THEN RenderSaved(updatedAccounts, serverAccounts, setActive, form)
        ELSE Render(persistedAccounts, serverAccounts, setActive, form)
  /\ UNCHANGED <<sessionId, reloading, ended, entered>>
  /\ UNCHANGED serverVars

\* deleteAccountMutation settles: onSuccess removes the account from the list.
deleteSettled(m) ==
  /\ m.phase = "resp" /\ m.kind = "delete"
  /\ net' = net \ {m}
  /\ IF Ok(m)
     THEN RenderSaved(SelectSeq(accounts, LAMBDA acc : Get(acc, "id") # Num(m.id)),
                      serverAccounts, activeTabId, form)
     ELSE UNCHANGED <<activeTabId, form, persistedAccounts, serverAccounts, sessionStorage>>
  /\ UNCHANGED <<sessionId, reloading, ended, entered>>
  /\ UNCHANGED serverVars

\* The accounts query, enabled while persistedAccounts is empty, fetches the
\* records of the session.
fetchAccounts ==
  /\ persistedAccounts = <<>>
  /\ GetAccounts(sessionId)
  /\ Render(persistedAccounts, resp'.list, activeTabId, form)
  /\ UNCHANGED <<sessionId, reloading, ended, net, entered>>

\* The page as loaded with an empty sessionStorage.
ClientInit ==
  /\ sessionId = <<"s">>
  /\ activeTabId = 0
  /\ form = defaultValues
  /\ persistedAccounts = <<>>
  /\ serverAccounts = <<>>
  /\ net = {}
  /\ entered = {}
  /\ sessionStorage = [session |-> sessionId, accounts |-> persistedAccounts]
  /\ reloading = FALSE
  /\ ended = {}

\* What the user types, per field.
Typed == {<<"additionalNotes", <<"n">>>>, <<"patientName", <<"P">>>>, <<"repName", <<"r">>>>}

ClientNext ==
  \/ CanSend /\ Adds < MaxAdds /\ addNewTab /\ UNCHANGED commentVars
  \/ \E id \in 1..MaxAdds :
       (SwitchSaves(id) => CanSend) /\ switchTab(id) /\ UNCHANGED commentVars
  \/ \E id \in 1..MaxAdds : CanSend /\ closeTab(id) /\ UNCHANGED commentVars
  \/ \E e \in Typed : CanSend /\ editField(e[1], e[2]) /\ UNCHANGED commentVars
  \/ \E m \in net : serve(m) /\ UNCHANGED commentVars
  \/ \E m \in net : createSettled(m) /\ UNCHANGED commentVars
  \/ \E m \in net : updateSettled(m) /\ UNCHANGED commentVars
  \/ \E m \in net : deleteSettled(m) /\ UNCHANGED commentVars
  \/ fetchAccounts /\ UNCHANGED commentVars

\* A new server, and the page as loaded.
Init == ServerInit /\ ClientInit /\ CommentInit

\* One browser session of the client against the server.
SpecClient == Init /\ [][ClientNext]_vars

\* The record of the first Add Patient of a session, as posted and as stored.
firstAccountData ==
  [patientName |-> Str(<<"N", "e", "w", " ", "P", "a", "t", "i", "e", "n", "t">>), accountNumber |-> Str(<<"A", "C", "C", "-", "2", "0", "2", "5", "-", "0", "0", "1">>),
   insuranceName |-> Str(<<>>), repName |-> Str(<<>>), callReference |-> Str(<<>>),
   sessionId |-> Str(<<"s">>)]
firstAccount ==
  Spread(firstAccountData, [id |-> Num(1), createdAt |-> DateV(0), updatedAt |-> DateV(0)])

\* The page after the first Add Patient has completed: account 1 is stored,
\* listed and active, and its values are in the form.
OnePatientInit ==
  /\ patientAccounts = <<[key |-> 1, value |-> firstAccount]>>
  /\ currentAccountId = 2
  /\ now = 0
  /\ resp = Response(Request("create", <<>>, firstAccountData), 201, toJSON(firstAccount), <<>>)
  /\ created = <<1>>
  /\ sessionId = <<"s">>
  /\ activeTabId = 1
  /\ form = [k \in FormKeys |-> OrEmpty(Get(toJSON(firstAccount), k))]
  /\ persistedAccounts = <<toJSON(firstAccount)>>
  /\ serverAccounts = <<>>
  /\ net = {}
  /\ entered = {}
  /\ sessionStorage = [session |-> sessionId, accounts |-> persistedAccounts]
  /\ reloading = FALSE
  /\ ended = {}
  /\ generatedComment = <<>> /\ generated = {} /\ exported = NoExport

\* The notes typed and the insurance selected while one form is edited.
Edited == {<<"additionalNotes", <<"n">>>>, <<"insuranceName", <<"u", "h", "c">>>>}
\* What the user types into a date input, and the days picked in a calendar.
TypedDates == {<<"1">>, <<"1", "3", "4", "5", "2", "0", "2", "5">>}
PickedDates == {[year |-> 2025, month |-> 0, date |-> 2]}

\* Requests are sent while fewer than MaxPending are in flight.
MayEdit == Cardinality(net) < MaxPending

EditNext ==
  \/ \E e \in Edited : MayEdit /\ editField(e[1], e[2]) /\ UNCHANGED commentVars
  \/ \E text \in TypedDates : MayEdit /\ editDate("dateOfService", text) /\ UNCHANGED commentVars
  \/ \E date \in PickedDates : MayEdit /\ selectDate("eligibilityFromDate", date) /\ UNCHANGED commentVars
  \/ MayEdit /\ onSubmit /\ UNCHANGED commentVars
  \/ \E m \in net : serve(m) /\ UNCHANGED commentVars
  \/ \E m \in net : updateSettled(m) /\ UNCHANGED commentVars

\* The user edits the form of one patient, with requests that overtake each
\* other on their way to the server and back.
SpecEdit == OnePatientInit /\ [][EditNext]_vars

\* Mutant: the code is sent and the description is left as it was.
handleDenialCodeChange_codeOnly(denialCode) ==
  /\ form' = [form EXCEPT !["denialCode"] = denialCode]
  /\ net' = net \cup {Message(NewMid, "update", activeTabId,
                              Obj1("denialCode", Str(denialCode)), NoCont)}

\* handleDenialCodeChange, called by onSelect after field.onChange(mapping.code)
\* has set the code in the form: for a code of the table the description is set
\* in the form, and code and description are sent when a tab is active.
handleDenialCodeChange(denialCode) ==
  IF HasMapping(denialCode)
  THEN /\ form' = [form EXCEPT !["denialCode"] = denialCode,
                               !["denialDescription"] = mappingOf(denialCode).description]
       /\ net' = IF activeTabId # 0
                 THEN net \cup {Message(NewMid, "update", activeTabId,
                                        [denialCode |-> Str(denialCode),
                                         denialDescription |-> Str(mappingOf(denialCode).description)],
                                        NoCont)}
                 ELSE net
  ELSE /\ form' = [form EXCEPT !["denialCode"] = denialCode]
       /\ UNCHANGED net

\* The onSelect of an item of the denial code list, which lists the entries of
\* the table and is shown while the active account is in the list.
selectDenialCode(i) ==
  /\ HasAccount(accounts, activeTabId)
  /\ handleDenialCodeChange(denialCodeMappings[i].code)
  /\ entered' = entered \cup {<<activeTabId, "denialCode", denialCodeMappings[i].code>>}
  /\ UNCHANGED <<sessionId, reloading, ended, activeTabId, persistedAccounts, serverAccounts, sessionStorage>>
  /\ UNCHANGED serverVars

\* The items of the list that are selected: the first, one in the middle and
\* the last.
SelectedItems == {1, 7, Len(denialCodeMappings)}

DenialNext ==
  \/ \E i \in SelectedItems : MayEdit /\ selectDenialCode(i) /\ UNCHANGED commentVars
  \/ \E e \in Edited : MayEdit /\ editField(e[1], e[2]) /\ UNCHANGED commentVars
  \/ \E m \in net : serve(m) /\ UNCHANGED commentVars
  \/ \E m \in net : updateSettled(m) /\ UNCHANGED commentVars

\* Denial codes are selected for one patient.
SpecDenial == OnePatientInit /\ [][DenialNext]_vars

\* A route handler up to its await: the body is parsed and the storage method
\* is called, which runs to its end before anything else does; the handler then
\* waits at the await with what the method returned.  A body that does not
\* parse is answered in the catch block, with no await in between.
call(m) ==
  /\ m.phase = "req"
  /\ CASE m.kind = "create" ->
            LET parsed == insertPatientAccountSchema(m.body)
                made == createPatientAccount(parsed.data)
            IN IF parsed.ok
               THEN /\ patientAccounts' = made.store
                    /\ currentAccountId' = made.nextId
                    /\ created' = Append(created, made.account["id"].n)
                    /\ net' = (net \ {m}) \cup
                          {[m EXCEPT !.phase = "await", !.status = 201, !.result = toJSON(made.account)]}
                    /\ UNCHANGED resp
               ELSE /\ resp' = Invalid(Request("create", <<>>, m.body))
                    /\ net' = (net \ {m}) \cup {Answered(m)}
                    /\ UNCHANGED <<patientAccounts, currentAccountId, created>>
       [] m.kind = "update" ->
            LET parsed == updatePatientAccountSchema(m.body)
                done == updatePatientAccount(parseInt(NumToChars(m.id)), parsed.data)
            IN IF parsed.ok
               THEN /\ patientAccounts' = done.store
                    /\ net' = (net \ {m}) \cup
                          {[m EXCEPT !.phase = "await",
                                     !.status = IF done.found THEN 200 ELSE 404,
                                     !.result = IF done.found THEN toJSON(done.account)
                                                ELSE [message |-> Str(MsgNotFound)]]}
                    /\ UNCHANGED <<resp, currentAccountId, created>>
               ELSE /\ resp' = Invalid(Request("update", NumToChars(m.id), m.body))
                    /\ net' = (net \ {m}) \cup {Answered(m)}
                    /\ UNCHANGED <<patientAccounts, currentAccountId, created>>
       [] m.kind = "delete" ->
            LET done == deletePatientAccount(parseInt(NumToChars(m.id)))
            IN /\ patientAccounts' = done.store
               /\ net' = (net \ {m}) \cup
                     {[m EXCEPT !.phase = "await",
                                !.status = IF done.deleted THEN 204 ELSE 404,
                                !.result = IF done.deleted THEN EmptyObj
                                           ELSE [message |-> Str(MsgNotFound)]]}
               /\ UNCHANGED <<resp, currentAccountId, created>>
  /\ UNCHANGED now
  /\ UNCHANGED <<sessionId, reloading, ended, activeTabId, form, persistedAccounts, serverAccounts, sessionStorage, entered>>

\* A route handler after its await: the response is sent.
reply(m) ==
  /\ m.phase = "await"
  /\ resp' = Response(Request(m.kind, IF m.kind = "create" THEN <<>> ELSE NumToChars(m.id),
                              IF m.kind = "delete" THEN EmptyObj ELSE m.body),
                      m.status, m.result, <<>>)
  /\ net' = (net \ {m}) \cup {[m EXCEPT !.phase = "resp"]}
  /\ UNCHANGED <<patientAccounts, currentAccountId, now, created>>
  /\ UNCHANGED <<sessionId, reloading, ended, activeTabId, form, persistedAccounts, serverAccounts, sessionStorage, entered>>

\* Requests that reach the server at the same time: two creates, updates of
\* account 1 (of different fields, of the same field, one that does not parse)
\* and its delete.
ConcurrentRequests == {
  Message(1, "create", 0, NewAccountData(<<"s">>), NoCont),
  Message(2, "create", 0, NewAccountData(<<"t">>), NoCont),
  Message(3, "update", 1, Obj1("repName", Str(<<"r">>)), NoCont),
  Message(4, "update", 1, Obj1("callReference", Str(<<"7">>)), NoCont),
  Message(5, "update", 1, Obj1("repName", Str(<<"q">>)), NoCont),
  Message(6, "update", 1, Obj1("patientName", Null), NoCont),
  Message(7, "delete", 1, EmptyObj, NoCont)}

\* The server with account 1 stored and requests that have arrived together.
ConcurrentInit ==
  /\ patientAccounts = <<[key |-> 1, value |-> firstAccount]>>
  /\ currentAccountId = 2
  /\ now = 0
  /\ resp = Response(Request("create", <<>>, firstAccountData), 201, toJSON(firstAccount), <<>>)
  /\ created = <<1>>
  /\ sessionId = <<"s">>
  /\ activeTabId = 1
  /\ form = [k \in FormKeys |-> OrEmpty(Get(toJSON(firstAccount), k))]
  /\ persistedAccounts = <<toJSON(firstAccount)>>
  /\ serverAccounts = <<>>
  /\ net \in {R \in SUBSET ConcurrentRequests : Cardinality(R) \in 2..MaxConcurrent}
  /\ entered = {}
  /\ sessionStorage = [session |-> sessionId, accounts |-> persistedAccounts]
  /\ reloading = FALSE
  /\ ended = {}
  /\ generatedComment = <<>> /\ generated = {} /\ exported = NoExport

ConcurrentNext ==
  \/ \E m \in net : call(m) /\ UNCHANGED commentVars
  \/ \E m \in net : reply(m) /\ UNCHANGED commentVars

\* The handlers of concurrent requests, interleaved at their awaits.
SpecConcurrent == ConcurrentInit /\ [][ConcurrentNext]_vars

\* The records after a second Add Patient, clicked with account 1 active and
\* its form untouched: account 1 as saved from the form, and account 2.
firstForm == [k \in FormKeys |-> OrEmpty(Get(toJSON(firstAccount), k))]
firstSaved ==
  Spread(Spread(firstAccount, [k \in FormKeys |-> Str(firstForm[k])]), [updatedAt |-> DateV(0)])
secondAccountData ==
  [patientName |-> Str(<<"N", "e", "w", " ", "P", "a", "t", "i", "e", "n", "t">>), accountNumber |-> Str(<<"A", "C", "C", "-", "2", "0", "2", "5", "-", "0", "0", "2">>),
   insuranceName |-> Str(<<>>), repName |-> Str(<<>>), callReference |-> Str(<<>>),
   sessionId |-> Str(<<"s">>)]
secondStored ==
  Spread(secondAccountData, [id |-> Num(2), createdAt |-> DateV(0), updatedAt |-> DateV(0)])

\* The page after the second Add Patient has completed: accounts 1 and 2 are
\* stored and listed, and account 2 is active.
TwoPatientsInit ==
  /\ patientAccounts = <<[key |-> 1, value |-> firstSaved], [key |-> 2, value |-> secondStored]>>
  /\ currentAccountId = 3
  /\ now = 0
  /\ resp = Response(Request("create", <<>>, secondAccountData), 201, toJSON(secondStored), <<>>)
  /\ created = <<1, 2>>
  /\ sessionId = <<"s">>
  /\ activeTabId = 2
  /\ form = [k \in FormKeys |-> OrEmpty(Get(toJSON(secondStored), k))]
  /\ persistedAccounts = <<toJSON(firstSaved), toJSON(secondStored)>>
  /\ serverAccounts = <<>>
  /\ net = {}
  /\ entered = {}
  /\ sessionStorage = [session |-> sessionId, accounts |-> persistedAccounts]
  /\ reloading = FALSE
  /\ ended = {}
  /\ generatedComment = <<>> /\ generated = {} /\ exported = NoExport

\* Tabs are closed, switched to and added, one request at a time, with one Add
\* Patient more than the two that made the accounts of the page.
TabsNext ==
  \/ CanSend /\ Adds <= MaxAdds /\ addNewTab /\ UNCHANGED commentVars
  \/ \E id \in 1..(MaxAdds + 1) : CanSend /\ closeTab(id) /\ UNCHANGED commentVars
  \/ \E id \in 1..(MaxAdds + 1) :
       (SwitchSaves(id) => CanSend) /\ switchTab(id) /\ UNCHANGED commentVars
  \/ \E m \in net : serve(m) /\ UNCHANGED commentVars
  \/ \E m \in net : createSettled(m) /\ UNCHANGED commentVars
  \/ \E m \in net : updateSettled(m) /\ UNCHANGED commentVars
  \/ \E m \in net : deleteSettled(m) /\ UNCHANGED commentVars
  \/ fetchAccounts /\ UNCHANGED commentVars

\* A call with two patients on the page.
SpecTabs == TwoPatientsInit /\ [][TabsNext]_vars

\* The New Call button: clearSessionStorage(), then window.location.reload().
\* The reload is a navigation: the page keeps running until it is replaced.
newCall ==
  /\ sessionStorage' = NoStorage
  /\ reloading' = TRUE
  /\ ended' = ended \cup {sessionId}
  /\ UNCHANGED <<sessionId, activeTabId, form, persistedAccounts, serverAccounts, net, entered>>
  /\ UNCHANGED serverVars

\* The page that replaces the one reloaded: its state is initialised from
\* sessionStorage, the effects run, and what the replaced page had in flight
\* is answered to nobody.
mount ==
  /\ reloading
  /\ LET saved == sessionStorage.session
         sid == IF saved # <<>> THEN saved
                ELSE <<"s", "e", "s", "s", "i", "o", "n", "-">> \o NumToChars(now)
         r == Rendered(sessionStorage.accounts, <<>>, 0, 0, defaultValues)
     IN /\ sessionId' = sid
        /\ persistedAccounts' = r.persisted
        /\ serverAccounts' = <<>>
        /\ activeTabId' = r.active
        /\ form' = r.form
        /\ sessionStorage' = [session |-> sid, accounts |-> sessionStorage.accounts]
  /\ reloading' = FALSE
  /\ net' = {}
  /\ generatedComment' = <<>>
  /\ UNCHANGED <<entered, ended, generated, exported, serverVars>>

\* A call with one patient on the page, ended with New Call while the form is
\* edited, and the call that follows it.
CallNext ==
  \/ \E e \in Edited : ~reloading /\ MayEdit /\ editField(e[1], e[2]) /\ UNCHANGED commentVars
  \/ ~reloading /\ net = {} /\ Adds < MaxAdds /\ addNewTab /\ UNCHANGED commentVars
  \/ ~reloading /\ Cardinality(ended) < MaxCalls /\ newCall /\ UNCHANGED commentVars
  \/ mount
  \/ ~reloading /\ fetchAccounts /\ UNCHANGED commentVars
  \/ \E m \in net : serve(m) /\ UNCHANGED commentVars
  \/ \E m \in net : createSettled(m) /\ UNCHANGED commentVars
  \/ \E m \in net : updateSettled(m) /\ UNCHANGED commentVars

SpecCall == OnePatientInit /\ [][CallNext]_vars

\* The routes under arbitrary requests, with no client attached; instants are
\* counted from the first record's creation.
Next ==
  \/ \E s \in SessionIds : GetAccounts(s) /\ UNCHANGED <<clientVars, commentVars>>
  \/ \E p \in IdParams : GetAccountDetail(p) /\ UNCHANGED <<clientVars, commentVars>>
  \/ \E b \in InsertBodies :
       currentAccountId <= MaxCreates /\ PostAccount(b) /\ UNCHANGED <<clientVars, commentVars>>
  \/ \E p \in IdParams, b \in UpdateBodies :
       PatchAccount(p, b) /\ UNCHANGED <<clientVars, commentVars>>
  \/ \E p \in IdParams : DeleteAccount(p) /\ UNCHANGED <<clientVars, commentVars>>
  \/ currentAccountId > 1 /\ Tick /\ UNCHANGED <<clientVars, commentVars>>

Spec == Init /\ [][Next]_vars

\* ----------------------------------------------------- generating comments
\* generateComment: the comment is generated from the values of the form.
generateComment ==
  /\ generatedComment' = generateRCMComment(form)
  /\ generated' = generated \cup
       {[formData |-> form, comment |-> generatedComment', at |-> now]}
  /\ UNCHANGED <<serverVars, clientVars, exported>>

\* The onChange of the textarea that shows the generated comment.
editComment(text) ==
  /\ generatedComment # <<>>
  /\ generatedComment' = text
  /\ UNCHANGED <<generated, exported, serverVars, clientVars>>

\* Values of the form as the page fills it in: every field is a text.
FilledForms ==
  [patientName : {<<>>},
   accountNumber : {<<>>},
   insuranceName : {<<>>, <<"u", "h", "c">>, <<"z", "z">>},
   repName : {<<>>, <<"A", "l">>},
   callReference : {<<>>, <<"7">>},
   denialCode : {<<>>, <<"C", "O", "-", "2", "2">>, <<"C", "O", "-", "2", "7">>, <<"Z", "Z">>},
   denialDescription : {<<>>},
   dateOfService : {<<>>},
   eligibilityFromDate : {<<"0", "1", "/", "0", "2", "/", "2", "0", "2", "5">>},
   eligibilityStatus : {<<>>, <<"a", "c", "t", "i", "v", "e">>},
   additionalNotes : {<<>>, <<" ", " ">>, <<"D", "o", "n", "e", "!">>, <<"d", "u", "p", " ", "c", "l", "a", "i", "m", ",", " ", "p", "t", " ", "p", "a", "i", "d", " ", " ", "o", "u", "t">>,
                      <<"M", "C", "R", " ", "p", "r", "i", "m", " ", "n", "e", "v", "e", "r", " ", "b", "i", "l", "e", "d", ",", " ", "a", "e", "t", "n", "a", " ", "2", "n", "d">>,
                      <<"s", "u", "b", "m", "i", "t", " ", "o", "n", " ", "0", "1", "0", "2", "2", "0", "2", "5", " ", "s", "e", "e", " ", "o", "t", "h", "e", "r", " ", "c", "l", "a", "i", "m", "#", "1", "2">>}]

\* Forms that name each case label of the switch, and a code that differs
\* from a label only in case.
CodeForms ==
  [patientName : {<<>>},
   accountNumber : {<<>>},
   insuranceName : {<<"a", "e", "t", "n", "a">>},
   repName : {<<"A", "l">>},
   callReference : {<<>>},
   denialCode : caseCodes \cup {<<"c", "o", "-", "4">>},
   denialDescription : {<<>>},
   dateOfService : {<<>>},
   eligibilityFromDate : {<<>>},
   eligibilityStatus : {<<>>},
   additionalNotes : {<<>>, <<"m", "c", "r", " ", "1", "s", "t">>}]

\* Inputs of generateRCMComment(formData: any) that leave properties out.
PartialForms ==
  { EmptyObj,
    [k \in {"repName"} |-> <<"A", "l">>],
    [k \in {"insuranceName", "callReference"} |->
       IF k = "insuranceName" THEN <<"u", "h", "c">> ELSE <<"7">>],
    [k \in {"denialCode", "additionalNotes"} |->
       IF k = "denialCode" THEN <<"P", "R", "-", "1">> ELSE <<"D", "o", "n", "e", "!">>] }

\* The inputs that comments are generated from.
CommentForms == FilledForms \cup CodeForms \cup PartialForms

CommentNext ==
  \/ generateComment
  \/ \E text \in {<<"x">>} : editComment(text)
  \/ Tick /\ UNCHANGED <<clientVars, commentVars>>

\* The page with a form that has been filled in, no comment generated yet.
FilledInit ==
  /\ patientAccounts = <<>> /\ currentAccountId = 1 /\ now = 0
  /\ resp = Response(Request("none", <<>>, EmptyObj), 0, EmptyObj, <<>>) /\ created = <<>>
  /\ sessionId = <<"s">> /\ activeTabId = 0 /\ persistedAccounts = <<>>
  /\ serverAccounts = <<>> /\ net = {} /\ entered = {}
  /\ sessionStorage = [session |-> sessionId, accounts |-> persistedAccounts]
  /\ reloading = FALSE /\ ended = {}
  /\ form \in CommentForms
  /\ generatedComment = <<>> /\ generated = {} /\ exported = NoExport

\* Comments generated at different times from the form.
SpecComment == FilledInit /\ [][CommentNext]_vars

\* ------------------------------------------------------------- the export
\* The headers of exportSession.
headers == <<
  <<"P", "a", "t", "i", "e", "n", "t", " ", "N", "a", "m", "e">>, <<"A", "c", "c", "o", "u", "n", "t", " ", "N", "u", "m", "b", "e", "r">>, <<"I", "n", "s", "u", "r", "a", "n", "c", "e", " ", "N", "a", "m", "e">>, <<"R", "e", "p", " ", "N", "a", "m", "e">>,
  <<"C", "a", "l", "l", " ", "R", "e", "f", "e", "r", "e", "n", "c", "e">>, <<"D", "e", "n", "i", "a", "l", " ", "C", "o", "d", "e">>, <<"D", "e", "n", "i", "a", "l", " ", "D", "e", "s", "c", "r", "i", "p", "t", "i", "o", "n">>, <<"D", "a", "t", "e", " ", "o", "f", " ", "S", "e", "r", "v", "i", "c", "e">>,
  <<"E", "l", "i", "g", "i", "b", "i", "l", "i", "t", "y", " ", "F", "r", "o", "m", " ", "D", "a", "t", "e">>, <<"E", "l", "i", "g", "i", "b", "i", "l", "i", "t", "y", " ", "S", "t", "a", "t", "u", "s">>, <<"A", "d", "d", "i", "t", "i", "o", "n", "a", "l", " ", "N", "o", "t", "e", "s">>,
  <<"G", "e", "n", "e", "r", "a", "t", "e", "d", " ", "C", "o", "m", "m", "e", "n", "t">>, <<"C", "r", "e", "a", "t", "e", "d", " ", "A", "t">>, <<"U", "p", "d", "a", "t", "e", "d", " ", "A", "t">>>>

\* new Date(iso).toLocaleString(): the instant as a local date and time, which
\* are separated by a comma.
toLocaleString(iso) == Tail(iso) \o <<",", " ", "1", "2", ":", "0", "0", ":", "0", "0", " ", "A", "M">>

\* The object that exportSession hands to generateRCMComment for an account;
\* null and undefined are as falsy there as the empty string.
commentData(account) ==
  [k \in {"patientName", "accountNumber", "insuranceName", "repName", "callReference",
           "denialCode", "dateOfService", "eligibilityFromDate", "eligibilityStatus",
           "additionalNotes"} |-> OrEmpty(Get(account, k))]

\* account.<k> || '' in a row.
column(account, k) == OrEmpty(Get(account, k))
\* account.<k> ? new Date(account.<k>).toLocaleString() : '' in a row.
localTime(account, k) ==
  IF column(account, k) # <<>> THEN toLocaleString(column(account, k)) ELSE <<>>

\* The row of an account in csvRows.
csvRow(account) ==
  <<column(account, "patientName"), column(account, "accountNumber"),
    OrText(getInsuranceLabel(column(account, "insuranceName")), column(account, "insuranceName")),
    column(account, "repName"), column(account, "callReference"), column(account, "denialCode"),
    column(account, "denialDescription"), column(account, "dateOfService"),
    column(account, "eligibilityFromDate"), column(account, "eligibilityStatus"),
    column(account, "additionalNotes"),
    generateRCMComment(commentData(account)),
    localTime(account, "createdAt"), localTime(account, "updatedAt")>>

\* accounts.map(account => [...]): one row per account of the list.
csvRows == [i \in 1..Len(accounts) |-> csvRow(accounts[i])]

\* field.replace(/"/g, '""'): every quote is written twice.
doubleQuotes(field) ==
  LET at == [i \in 1..Len(field) |->
               i + Cardinality({q \in 1..(i - 1) : field[q] = "\""})]
      total == IF field = <<>> THEN 0
               ELSE at[Len(field)] + (IF field[Len(field)] = "\"" THEN 1 ELSE 0)
  IN [j \in 1..total |->
        field[CHOOSE i \in 1..Len(field) :
                at[i] = j \/ (field[i] = "\"" /\ at[i] + 1 = j)]]

\* Mutant: a field is written as it is.
escapeField_asIs(field) == field

\* A field of a row as written: quoted when it holds a comma, a quote or a
\* line break.
escapeField(field) ==
  IF \E i \in 1..Len(field) : field[i] \in {",", "\"", "\n"}
  THEN <<"\"">> \o doubleQuotes(field) \o <<"\"">>
  ELSE field

\* row.map(field => ...).join(','): a row as a line of the file.
csvLine(row) == join([j \in 1..Len(row) |-> escapeField(row[j])], <<",">>)

\* The text of the file: the comment lines, the header line, the rows.
csvContent(rows) ==
  join(<<<<"#", " ", "A", "R", " ", "C", "o", "p", "i", "l", "o", "t", " ", "S", "e", "s", "s", "i", "o", "n", " ", "E", "x", "p", "o", "r", "t">>,
         <<"#", " ", "S", "e", "s", "s", "i", "o", "n", " ", "I", "D", ":", " ">> \o sessionId,
         <<"#", " ", "E", "x", "p", "o", "r", "t", " ", "D", "a", "t", "e", ":", " ">> \o toLocaleString(toISOString(now)),
         <<"#", " ", "T", "o", "t", "a", "l", " ", "A", "c", "c", "o", "u", "n", "t", "s", ":", " ">> \o NumToChars(Len(accounts)),
         <<>>,
         join(headers, <<",">>)>>
       \o [i \in 1..Len(rows) |-> csvLine(rows[i])],
       <<"\n">>)

\* exportSession: the headers, the rows and the text of the file.
exportSession ==
  /\ \E rows \in {csvRows} :
        exported' = [headers |-> headers, csvRows |-> rows,
                     csvContent |-> csvContent(rows)]
  /\ UNCHANGED <<serverVars, clientVars, generatedComment, generated>>

\* Values of the fields of an account that is exported.
ExportedValues ==
  [insuranceName : {Str(<<>>), Str(<<"u", "h", "c">>)},
   repName : {Str(<<>>), Str(<<"A", "l">>)},
   denialCode : {Null, Str(<<"C", "O", "-", "2", "2">>)},
   additionalNotes : {Null, Str(<<"p", "a", "i", "d", ",", " ", "\"", "o", "u", "t", "\"">>),
                      Str(<<"n", "o", "\n", "\"", "E", "O", "B", "\"">>),
                      Str(<<"n", "o", "\r", "E", "O", "B">>)}]
\* The second account of a session, with values of its own.
secondAccount(values) ==
  Spread(Spread(firstAccount, values),
         [id |-> Num(2), accountNumber |-> Str(<<"A", "C", "C", "-", "2", "0", "2", "5", "-", "0", "0", "2">>)])
\* The stores that are exported: no account, one, or two.
ExportedStores ==
  {<<>>}
  \cup {<<[key |-> 1, value |-> Spread(firstAccount, a)]>> : a \in ExportedValues}
  \cup {<<[key |-> 1, value |-> firstAccount],
          [key |-> 2, value |-> secondAccount(b)]>> : b \in ExportedValues}

\* A page whose list holds the records of the store, the first one active.
ExportInit ==
  /\ patientAccounts \in ExportedStores
  /\ currentAccountId = Len(patientAccounts) + 1
  /\ now = 0
  /\ resp = Response(Request("none", <<>>, EmptyObj), 0, EmptyObj, <<>>)
  /\ created = [i \in 1..Len(patientAccounts) |-> i]
  /\ sessionId = <<"s">>
  /\ activeTabId = IF patientAccounts = <<>> THEN 0 ELSE 1
  /\ persistedAccounts = [i \in 1..Len(patientAccounts) |-> toJSON(patientAccounts[i].value)]
  /\ form = IF patientAccounts = <<>> THEN defaultValues
            ELSE [k \in FormKeys |-> OrEmpty(Get(persistedAccounts[1], k))]
  /\ serverAccounts = <<>>
  /\ net = {}
  /\ entered = {}
  /\ sessionStorage = [session |-> sessionId, accounts |-> persistedAccounts]
  /\ reloading = FALSE
  /\ ended = {}
  /\ generatedComment = <<>> /\ generated = {} /\ exported = NoExport

ExportNext ==
  \/ exportSession
  \/ Tick /\ UNCHANGED <<clientVars, commentVars>>

\* Sessions being exported.
SpecExport == ExportInit /\ [][ExportNext]_vars

\* ------------------------------------------------------------------ claims
\* The stored records, as a set of Map entries.
Entries == {patientAccounts[i] : i \in 1..Len(patientAccounts)}
IdOf(idParam) == parseInt(idParam)
Exists(idParam) == ~IdOf(idParam).nan /\ MapHas(patientAccounts, IdOf(idParam).n)

\* C1: the n-th createPatientAccount call returns id n, so ids increase in
\* creation order and an id freed by a delete is never assigned again; every
\* stored record carries the id it is keyed by, and no two records share one.
C1_SequentialIds ==
  /\ \A n \in 1..Len(created) : created[n] = n
  /\ \A i \in 1..Len(patientAccounts) :
        /\ Get(patientAccounts[i].value, "id") = Num(patientAccounts[i].key)
        /\ patientAccounts[i].key \in 1..Len(created)
  /\ \A i, j \in 1..Len(patientAccounts) :
        i # j => patientAccounts[i].key # patientAccounts[j].key

\* A create has just returned the second id after the first record was deleted.
C1_Witness ==
  /\ resp.op = "create" /\ resp.status = 201
  /\ created = <<1, 2>>
  /\ MapKeys(patientAccounts) = {2}

\* C2: an update of an existing record sets exactly the schema fields present
\* in the updates, keeps every other field of the record (id and createdAt
\* among them), sets updatedAt to the time of the call, and leaves every other
\* record and the id counter as they were.
C2_UpdateFrame ==
  [][\A p \in IdParams, b \in UpdateBodies :
       (resp'.op = "update" /\ resp'.param = p /\ resp'.sent = b /\ Exists(p) /\ updatePatientAccountSchema(b).ok /\ PatchAccount(p, b)) =>
         LET id == IdOf(p).n
             old == MapGet(patientAccounts, id)
             new == MapGet(patientAccounts', id)
             sent == (DOMAIN b) \cap ShapeKeys
         IN /\ MapHas(patientAccounts', id)
            /\ DOMAIN new = (DOMAIN old) \cup sent
            /\ \A k \in sent : new[k] = b[k]
            /\ \A k \in (DOMAIN old) \ (sent \cup {"updatedAt"}) : new[k] = old[k]
            /\ new["id"] = old["id"] /\ new["createdAt"] = old["createdAt"]
            /\ new["updatedAt"] = DateV(now)
            /\ Len(patientAccounts') = Len(patientAccounts)
            /\ \A i \in 1..Len(patientAccounts) :
                  patientAccounts[i].key # id => patientAccounts'[i] = patientAccounts[i]
            /\ currentAccountId' = currentAccountId]_vars

\* An update has just added repName to one of two records at a later instant
\* than the record's creation.
C2_Witness ==
  /\ resp.op = "update" /\ resp.status = 200
  /\ Len(patientAccounts) = 2
  /\ \E e \in Entries :
        /\ toJSON(e.value) = resp.body
        /\ "repName" \in DOMAIN e.value
        /\ e.value["updatedAt"].n > e.value["createdAt"].n

\* C3: a delete removes the record with the given id and no other, leaves the
\* other records and the id counter as they were, and reports success exactly
\* when the record existed, so that a second delete of the id reports not found.
C3_DeleteFrame ==
  [][\A p \in IdParams :
       (resp'.op = "delete" /\ resp'.param = p /\ DeleteAccount(p)) =>
         /\ MapKeys(patientAccounts') =
              MapKeys(patientAccounts) \ (IF IdOf(p).nan THEN {} ELSE {IdOf(p).n})
         /\ \A e \in Entries :
              (IdOf(p).nan \/ e.key # IdOf(p).n) =>
                \E i \in 1..Len(patientAccounts') : patientAccounts'[i] = e
         /\ Len(patientAccounts') = Cardinality(MapKeys(patientAccounts'))
         /\ currentAccountId' = currentAccountId
         /\ (resp'.status = 204) <=> Exists(p)
         /\ (resp'.status = 404) <=> ~Exists(p)
         /\ ~(deletePatientAccount(IdOf(p)).deleted)']_vars

\* A delete has just removed one record and left another in the store.
C3_Witness ==
  /\ resp.op = "delete" /\ resp.status = 204
  /\ Len(created) = 2
  /\ Len(patientAccounts) = 1

\* C4: the listing of a session holds exactly the stored records of that
\* session, each once and none of another session, and listing changes nothing
\* in the store.
C4_ListBySession ==
  [][\A s \in SessionIds :
       (resp'.op = "list" /\ resp'.param = s /\ GetAccounts(s)) =>
         LET mine == {e \in Entries : Get(e.value, "sessionId") = Str(s)}
         IN /\ resp'.status = 200
            /\ Len(resp'.list) = Cardinality(mine)
            /\ \A e \in mine :
                  Cardinality({i \in 1..Len(resp'.list) : resp'.list[i] = toJSON(e.value)}) = 1
            /\ \A i \in 1..Len(resp'.list) : Get(resp'.list[i], "sessionId") = Str(s)
            /\ UNCHANGED <<patientAccounts, currentAccountId>>]_vars

\* A listing has just returned one record while the store holds another one
\* of the other session.
C4_Witness ==
  /\ resp.op = "list" /\ Len(resp.list) = 1
  /\ Len(patientAccounts) = 2
  /\ \E e \in Entries : Get(e.value, "sessionId") # Get(resp.list[1], "sessionId")

NamedKeys == {"patientName", "accountNumber", "insuranceName"}

MissingAnswer ==
  /\ resp'.status = 404
  /\ resp'.body = [message |-> Str(MsgNotFound)]
  /\ UNCHANGED <<patientAccounts, currentAccountId>>

\* C6 as stated: a read-by-id, update or delete request for an id that has no
\* stored record is answered 404 and leaves the store unchanged.
C6_MissingIs404 ==
  [][/\ \A p \in IdParams : (resp'.op = "detail" /\ resp'.param = p /\ ~Exists(p) /\ GetAccountDetail(p)) => MissingAnswer
     /\ \A p \in IdParams : (resp'.op = "delete" /\ resp'.param = p /\ ~Exists(p) /\ DeleteAccount(p)) => MissingAnswer
     /\ \A p \in IdParams, b \in UpdateBodies :
          (resp'.op = "update" /\ resp'.param = p /\ resp'.sent = b /\ ~Exists(p) /\ PatchAccount(p, b)) => MissingAnswer]_vars

\* C6 as amended: the same, for an update request only when its body passes
\* validation; an update whose body fails validation leaves the store
\* unchanged too but is answered 400, whether or not the id exists.
C6_MissingIs404WhenValid ==
  [][/\ \A p \in IdParams : (resp'.op = "detail" /\ resp'.param = p /\ ~Exists(p) /\ GetAccountDetail(p)) => MissingAnswer
     /\ \A p \in IdParams : (resp'.op = "delete" /\ resp'.param = p /\ ~Exists(p) /\ DeleteAccount(p)) => MissingAnswer
     /\ \A p \in IdParams, b \in UpdateBodies :
          (resp'.op = "update" /\ resp'.param = p /\ resp'.sent = b /\ ~Exists(p) /\ PatchAccount(p, b)) =>
            IF updatePatientAccountSchema(b).ok
            THEN MissingAnswer
            ELSE /\ resp'.status = 400
                 /\ UNCHANGED <<patientAccounts, currentAccountId>>]_vars

\* An update of an id that was created and then deleted has just been
\* answered 404, with another record in the store.
C6_Witness ==
  /\ resp.op = "update" /\ resp.status = 404
  /\ Len(created) = 2
  /\ Len(patientAccounts) = 1

\* C7: a create or update whose body fails validation is answered 400 and has
\* no effect: no record is created or modified and the id counter stays, so
\* the next create gets the id it would have got.
C7_InvalidHasNoEffect ==
  [][/\ \A b \in InsertBodies :
          (resp'.op = "create" /\ resp'.sent = b /\ ~insertPatientAccountSchema(b).ok /\ PostAccount(b)) =>
            /\ resp'.status = 400
            /\ UNCHANGED <<patientAccounts, currentAccountId, created>>
            /\ \A c \in InsertBodies :
                 (createPatientAccount(c).account["id"])' = createPatientAccount(c).account["id"]
     /\ \A p \in IdParams, b \in UpdateBodies :
          (resp'.op = "update" /\ resp'.param = p /\ resp'.sent = b /\ ~updatePatientAccountSchema(b).ok /\ PatchAccount(p, b)) =>
            /\ resp'.status = 400
            /\ UNCHANGED <<patientAccounts, currentAccountId, created>>]_vars

\* A create has just been refused with 400 after an earlier create succeeded.
C7_Witness ==
  /\ resp.op = "create" /\ resp.status = 400
  /\ Len(patientAccounts) = 1
  /\ currentAccountId = 2

\* C8: right after a successful create or update, the record read by the id
\* in the response equals the response in every field, and the listing of the
\* response's sessionId contains it.
C8_ResponseIsStored ==
  (resp.op \in {"create", "update"} /\ resp.status \in {200, 201}) =>
    LET got == getPatientAccount([nan |-> FALSE, n |-> resp.body["id"].n])
        listed == getPatientAccountsBySession(resp.body["sessionId"].v)
    IN /\ got.found
       /\ toJSON(got.account) = resp.body
       /\ \E i \in 1..Len(listed) : toJSON(listed[i]) = resp.body

\* An update has just moved a record to session t and added repName to it,
\* with a second record in the store.
C8_Witness ==
  /\ resp.op = "update" /\ resp.status = 200
  /\ resp.body["sessionId"] = Str(<<"t">>)
  /\ "repName" \in DOMAIN resp.body
  /\ Len(patientAccounts) = 2
\* What the user typed into field k for an account other than b and never for b.
ForeignEntry(b, k, text) ==
  /\ <<b, k, text>> \notin entered
  /\ \E e \in entered : e[1] # b /\ e[2] = k /\ e[3] = text

\* The fields that Add Patient does not copy into the new account.
IsolatedKeys == FormKeys \ {"repName", "callReference"}

CodeOf(formData) == Prop(formData, "denialCode")
TemplateOf(code) ==
  specificComment([denialCode |-> code, eligibilityStatus |-> <<>>,
                   eligibilityFromDate |-> <<>>])

\* C11: a denial code that is not a case label of the switch (also a missing
\* or empty one, or one that differs from a label in case) gets the generic
\* template and no other; a code that is a case label gets its own template,
\* which differs from the generic one and from every other label's.
C11_TemplateSelection ==
  /\ \A c \in caseCodes :
       /\ TemplateOf(c) # genericComment
       /\ \A d \in caseCodes \ {c} : TemplateOf(c) # TemplateOf(d)
  /\ \A g \in generated :
       IF CodeOf(g.formData) \in caseCodes
       THEN /\ includes(g.comment, <<":", " ">> \o specificComment(g.formData) \o <<".">>)
            /\ specificComment(g.formData) # genericComment
            /\ ~includes(g.comment, genericComment)
       ELSE /\ includes(g.comment, <<":", " ">> \o genericComment \o <<".">>)
            /\ \A c \in caseCodes \ {<<"C", "O", "-", "2", "7">>} : ~includes(g.comment, TemplateOf(c))
            /\ ~includes(g.comment, <<"C", "o", "v", "e", "r", "a", "g", "e", " ", "t", "e", "r", "m", "i", "n", "a", "t", "e", "d", " ", "p", "r", "i", "o", "r", " ", "t", "o", " ", "D", "O", "S">>)

\* A comment has been generated for a code with a case of its own.
C11_Witness ==
  \E g \in generated :
    /\ CodeOf(g.formData) = <<"P", "R", "-", "2", "0", "4">>
    /\ includes(g.comment, <<"P", "R", "-", "2", "0", "4", ":", " ", "S", "e", "r", "v", "i", "c", "e", " ", "n", "o", "t", " ", "c", "o", "v", "e", "r", "e", "d", " ", "u", "n", "d", "e", "r", " ", "c", "u", "r", "r", "e", "n", "t", " ", "p", "l", "a", "n", " ", "b", "e", "n", "e", "f", "i", "t", "s">>)
    /\ generatedComment = g.comment

\* The text that stands in the slot of a value: the value, or its placeholder.
Slot(formData, k, placeholder) ==
  IF k \notin DOMAIN formData \/ formData[k] = <<>> THEN placeholder
  ELSE formData[k]
\* The text in the slot of the insurance: the label of a known value.
InsuranceSlot(formData) ==
  LET value == Slot(formData, "insuranceName", <<"[", "I", "n", "s", "u", "r", "a", "n", "c", "e", "]">>)
      known == {i \in 1..Len(insuranceOptions) : insuranceOptions[i].value = value}
  IN IF known = {} THEN value ELSE insuranceOptions[CHOOSE i \in known : TRUE].label
EndsWith(s, sub) == Len(sub) <= Len(s) /\ OccursAt(s, sub, Len(s) - Len(sub) + 1)

\* C12: for every input whose properties are missing, empty or texts,
\* generateRCMComment returns a text; the text begins with "Spoke with <rep>
\* from <insurance> - <code>: " and ends with " Call ref #<reference>", where
\* each slot holds the value given (the label of a known insurance) or, for a
\* missing or empty value, [Rep Name], [Insurance], [Code] or [Reference].
C12_TotalWithPlaceholders ==
  \A g \in generated :
    /\ g.comment \in Seq(STRING)
    /\ OccursAt(g.comment,
                <<"S", "p", "o", "k", "e", " ", "w", "i", "t", "h", " ">> \o Slot(g.formData, "repName", <<"[", "R", "e", "p", " ", "N", "a", "m", "e", "]">>)
                \o <<" ", "f", "r", "o", "m", " ">> \o InsuranceSlot(g.formData)
                \o <<" ", "-", " ">> \o Slot(g.formData, "denialCode", <<"[", "C", "o", "d", "e", "]">>) \o <<":", " ">>, 1)
    /\ EndsWith(g.comment,
                <<" ", "C", "a", "l", "l", " ", "r", "e", "f", " ", "#">> \o Slot(g.formData, "callReference", <<"[", "R", "e", "f", "e", "r", "e", "n", "c", "e", "]">>))

\* A comment has been generated from an input without rep name and denial
\* code, with a known insurance and a call reference.
C12_Witness ==
  \E g \in generated :
    /\ DOMAIN g.formData = {"insuranceName", "callReference"}
    /\ OccursAt(g.comment, <<"S", "p", "o", "k", "e", " ", "w", "i", "t", "h", " ", "[", "R", "e", "p", " ", "N", "a", "m", "e", "]", " ", "f", "r", "o", "m", " ", "U", "n", "i", "t", "e", "d", " ", "H", "e", "a", "l", "t", "h", "c", "a", "r", "e", " ", "(", "U", "H", "C", ")", " ", "-", " ", "[", "C", "o", "d", "e", "]", ":", " ">>, 1)
    /\ EndsWith(g.comment, <<" ", "C", "a", "l", "l", " ", "r", "e", "f", " ", "#", "7">>)

\* C13 as stated: every non-empty text of notes stands in the comment as it
\* was entered.
C13_NotesVerbatim ==
  \A g \in generated :
    Prop(g.formData, "additionalNotes") # <<>>
      => includes(g.comment, Prop(g.formData, "additionalNotes"))

\* C13: notes that are not blank are put into the comment after " Additional
\* notes: " and before " Call ref #", rewritten: the section does not begin
\* with a small letter, and it holds the notes as entered whenever rewriting
\* leaves them as they are; blank notes leave no section.
C13_NotesRewritten ==
  \A g \in generated :
    LET notes == Prop(g.formData, "additionalNotes")
        lead == <<".", " ", "A", "d", "d", "i", "t", "i", "o", "n", "a", "l", " ", "n", "o", "t", "e", "s", ":", " ">>
        starts == {i \in 1..Len(g.comment) : OccursAt(g.comment, lead, i)}
    IN IF trim(notes) = <<>> THEN starts = {}
       ELSE /\ starts # {}
            /\ \A i \in starts :
                 /\ i + Len(lead) <= Len(g.comment)
                 /\ g.comment[i + Len(lead)] \notin LowerLetters
            /\ \E j \in (Least(starts) + Len(lead) + 1)..Len(g.comment) :
                 OccursAt(g.comment, <<" ", "C", "a", "l", "l", " ", "r", "e", "f", " ", "#">>, j)
            /\ notes = parseQAResponse(notes, CodeOf(g.formData))
                 => includes(g.comment, lead \o notes \o <<" ", "C", "a", "l", "l", " ", "r", "e", "f", " ", "#">>)

\* Notes have been rewritten on their way into the comment: the comment holds
\* a notes section and does not hold the notes as they were entered.
C13_Witness ==
  \E g \in generated :
    /\ trim(Prop(g.formData, "additionalNotes")) # <<>>
    /\ includes(g.comment, <<" ", "A", "d", "d", "i", "t", "i", "o", "n", "a", "l", " ", "n", "o", "t", "e", "s", ":", " ", "D", "u", "p", "l", "i", "c", "a", "t", "e", " ", "c", "l", "a", "i", "m", ",", " ", "p", "a", "t", "i", "e", "n", "t", " ", "p", "a", "i", "d", " ", "i", "n", " ", "f", "u", "l", "l", ".">>)
    /\ ~includes(g.comment, Prop(g.formData, "additionalNotes"))

\* The answer to the create of an Add Patient click.
CreatedByClick(m) ==
  m.kind = "create" /\ m.phase = "resp" /\ m.status = 201 /\ m.cont.click.clicked

Kept(click, id, k, before, after) ==
  after = before \/ (id = click.active /\ after = Str(click[k]))

\* C15: no step of an add (the save of the form being served and settling,
\* the create being served and settling) clears or changes the rep name or
\* the call reference of a record that exists: every record stored and
\* every record listed before the step is there after it, with the value it
\* had or the value its form showed at the click.
C15_AddKeepsRepAndRef ==
  [][\A m \in net :
       (m.cont.click.clicked /\ m \notin net') =>
         \A k \in {"repName", "callReference"} :
           /\ \A id \in MapKeys(patientAccounts) :
                /\ MapHas(patientAccounts', id)
                /\ Kept(m.cont.click, id, k, Get(MapGet(patientAccounts, id), k),
                        Get(MapGet(patientAccounts', id), k))
           /\ \A i \in 1..Len(accounts) :
                /\ i <= Len(accounts')
                /\ accounts'[i]["id"] = accounts[i]["id"]
                /\ Kept(m.cont.click, accounts[i]["id"].n, k, Get(accounts[i], k),
                        Get(accounts'[i], k))]_vars

\* The add of a click on a page whose active patient had a rep name has
\* completed, and the patient is stored and listed with that rep name.
C15_Witness ==
  \E m \in net :
    /\ CreatedByClick(m)
    /\ m.cont.click.shown /\ m.cont.click.repName = <<"r">>
    /\ m.result["repName"] = Str(<<"r">>)
    /\ MapHas(patientAccounts, m.cont.click.active)
    /\ Get(MapGet(patientAccounts, m.cont.click.active), "repName") = Str(<<"r">>)
    /\ \E j \in 1..Len(accounts) :
         accounts[j]["id"].n = m.cont.click.active /\ Get(accounts[j], "repName") = Str(<<"r">>)

\* The records of the client's session in the store, as the server sends them.
StoredForSession ==
  LET stored == getPatientAccountsBySession(sessionId)
  IN [i \in 1..Len(stored) |-> toJSON(stored[i])]
\* The entries of a list, as a set.
Range(list) == {list[i] : i \in 1..Len(list)}
SameRecords(list, stored) == Len(list) = Len(stored) /\ Range(list) = Range(stored)

\* C16: whenever no create, update or delete request is in flight, the
\* client's list of accounts, and its copy in sessionStorage when there is one,
\* hold the records that the store holds for the session, with the same
\* values, whatever the order in which requests were served and answered.
C16_Synchronized ==
  net = {} =>
    /\ SameRecords(accounts, StoredForSession)
    /\ persistedAccounts # <<>> => SameRecords(persistedAccounts, StoredForSession)

\* C17: no stored record holds, as date of service or as eligibility date, a
\* text that is not empty and not of the form MM/DD/YYYY (month 01-12, day
\* 01-31, a year of four digits).
C17_StoredDatesValid ==
  \A id \in MapKeys(patientAccounts) :
    \A k \in {"dateOfService", "eligibilityFromDate"} :
      LET date == OrEmpty(Get(MapGet(patientAccounts, id), k))
      IN date = <<>> \/ dateRegex(date)

\* C18: in an export the generated comment is the final column: the last
\* header is 'Generated Comment', and the last field of the row of each
\* account is the comment generated for the account.
C18_CommentIsLastColumn ==
  exported # NoExport =>
    /\ exported.headers[Len(exported.headers)] = <<"G", "e", "n", "e", "r", "a", "t", "e", "d", " ", "C", "o", "m", "m", "e", "n", "t">>
    /\ \A i \in 1..Len(exported.csvRows) :
         exported.csvRows[i][Len(exported.csvRows[i])]
           = generateRCMComment(commentData(accounts[i]))

\* C19: the most recently active tab is at the top of the tab list: the account
\* made active by a switch or by Add Patient is the first entry of the
\* displayed account list.
C19_ActiveTabFirst ==
  HasAccount(accounts, activeTabId) => Get(accounts[1], "id") = Num(activeTabId)

\* Records of a list that belong to a call ended with New Call.
OfEndedCall(accs) == {i \in 1..Len(accs) : Get(accs[i], "sessionId").v \in ended}

\* C20: New Call resets the session: once it was clicked, sessionStorage holds
\* nothing of the call it ended, and the page that follows has another
\* session id, lists no record of the ended call and sends no request for one.
C20_NewCallResets ==
  ended # {} =>
    /\ sessionStorage.session \notin ended
    /\ OfEndedCall(sessionStorage.accounts) = {}
    /\ ~reloading =>
         /\ sessionId \notin ended
         /\ OfEndedCall(accounts) = {}
         /\ \A m \in net :
              (m.kind \in {"update", "delete"} /\ MapHas(patientAccounts, m.id)) =>
                 Get(MapGet(patientAccounts, m.id), "sessionId").v \notin ended

\* C21: the denial description is auto-filled from the code: the form shows, with
\* a selected code, the table's description of that code, and when the update
\* sent by a selection has completed the stored record holds the selected code
\* and the table's description of it.
C21_DescriptionAutoFilled ==
  /\ form["denialCode"] # <<>> =>
        /\ HasMapping(form["denialCode"])
        /\ form["denialDescription"] = mappingOf(form["denialCode"]).description
  /\ (resp.op = "update" /\ resp.status = 200 /\ "denialCode" \in DOMAIN resp.sent) =>
        LET stored == MapGet(patientAccounts, parseInt(resp.param).n)
            selected == resp.sent["denialCode"].v
        IN /\ HasMapping(selected)
           /\ Get(stored, "denialCode") = Str(selected)
           /\ Get(stored, "denialDescription") = Str(mappingOf(selected).description)

\* The update sent by selecting PR-204 has completed, after CO-4 had been
\* selected and stored.
C21_Witness ==
  /\ resp.op = "update" /\ resp.status = 200
  /\ "denialCode" \in DOMAIN resp.sent
  /\ resp.sent["denialCode"] = Str(<<"P", "R", "-", "2", "0", "4">>)
  /\ <<1, "denialCode", <<"C", "O", "-", "4">>>> \in entered
  /\ form["denialCode"] = <<"P", "R", "-", "2", "0", "4">>
  /\ Get(MapGet(patientAccounts, 1), "denialDescription")
       = Str(mappingOf(<<"P", "R", "-", "2", "0", "4">>).description)
  /\ net = {}

\* The characters of the keys of the table, in the order of their code units.
KeyChars == <<"-", "0", "1", "2", "3", "4", "5", "6", "7", "8", "9", "C", "O", "P", "R">>
KeyRank(c) == CHOOSE i \in 1..Len(KeyChars) : KeyChars[i] = c
\* a < b for two strings: the first character that differs decides, and a
\* proper prefix comes first.
RECURSIVE alphabeticalBefore(_, _)
alphabeticalBefore(a, b) ==
  IF b = <<>> THEN FALSE
  ELSE IF a = <<>> THEN TRUE
  ELSE IF a[1] # b[1] THEN KeyRank(a[1]) < KeyRank(b[1])
  ELSE alphabeticalBefore(Tail(a), Tail(b))
\* The letters of a code before the hyphen, and the number after it.
DashOf(code) == CHOOSE i \in 1..Len(code) : code[i] = "-"
LettersOf(code) == SubSeq(code, 1, DashOf(code) - 1)
NumberOf(code) == parseInt(SubSeq(code, DashOf(code) + 1, Len(code))).n

\* The denial code list is on the page while the form of the active account is.
ListShown == HasAccount(accounts, activeTabId)

Alone(st, m) ==
  CASE m.kind = "create" ->
         LET parsed == insertPatientAccountSchema(m.body)
             account == Spread(parsed.data, [id |-> Num(st.nextId), createdAt |-> DateV(now),
                                             updatedAt |-> DateV(now)])
         IN IF parsed.ok
            THEN [store |-> Append(st.store, [key |-> st.nextId, value |-> account]),
                  nextId |-> st.nextId + 1]
            ELSE st
    [] m.kind = "update" ->
         LET parsed == updatePatientAccountSchema(m.body)
         IN IF parsed.ok /\ MapHas(st.store, m.id)
            THEN [st EXCEPT !.store =
                    MapSet(st.store, m.id,
                           Spread(Spread(MapGet(st.store, m.id), parsed.data),
                                  [updatedAt |-> DateV(now)]))]
            ELSE st
    [] m.kind = "delete" -> [st EXCEPT !.store = MapDelete(st.store, m.id)]
\* The requests of order handled one at a time, the first one first.
RECURSIVE OneAtATime(_, _)
OneAtATime(st, order) ==
  IF order = <<>> THEN st ELSE OneAtATime(Alone(st, Head(order)), Tail(order))
\* The orders in which the requests of R can be handled one at a time.
Orders(R) ==
  {order \in [1..Cardinality(R) -> R] :
     \A i, j \in 1..Cardinality(R) : i # j => order[i] # order[j]}
\* The requests whose storage call has been made.
Called == {m \in net : m.phase # "req"}

\* C23: each storage operation takes effect atomically: however the handlers of
\* concurrent requests interleave, the store and the id counter are what
\* handling the requests served so far one at a time, in some order, gives; two
\* creates never get the same id, and of two updates of different fields of a
\* record both are retained.
C23_Atomic ==
  /\ \E order \in Orders(Called) :
        OneAtATime([store |-> <<[key |-> 1, value |-> firstAccount]>>, nextId |-> 2], order)
          = [store |-> patientAccounts, nextId |-> currentAccountId]
  /\ \A a, b \in Called :
        (a # b /\ a.kind = "create" /\ b.kind = "create" /\ a.status = 201 /\ b.status = 201)
          => Get(a.result, "id") # Get(b.result, "id")
  /\ \A a \in Called : \A k \in DOMAIN a.body :
        (/\ a.kind = "update" /\ a.status = 200
         /\ MapHas(patientAccounts, a.id)
         /\ \A b \in Called \ {a} : b.kind = "update" => k \notin DOMAIN b.body)
          => Get(MapGet(patientAccounts, a.id), k) = a.body[k]

\* Two creates and two updates of different fields of account 1 that arrived
\* together have all been answered.
C23_Witness ==
  /\ {m.mid : m \in net} = {1, 2, 3, 4}
  /\ \A m \in net : m.phase = "resp" /\ Ok(m)
  /\ Get(MapGet(patientAccounts, 1), "repName") = Str(<<"r">>)
  /\ Get(MapGet(patientAccounts, 1), "callReference") = Str(<<"7">>)
  /\ MapKeys(patientAccounts) = {1, 2, 3}

\* C24: switching tabs saves before it switches: switchTab to an account other
\* than the active one sends the complete form as an update of the active
\* account and leaves the active tab as it is; the tab is switched when that
\* request settles, with whatever status; switching to the active account, or
\* with no account active, sends nothing and switches at once.
C24_SaveBeforeSwitch ==
  [][/\ \A id \in 1..MaxAdds :
          switchTab(id) =>
            IF activeTabId # 0 /\ activeTabId # id
            THEN /\ activeTabId' = activeTabId
                 /\ \E m \in net' \ net :
                       /\ net' = net \cup {m}
                       /\ m.kind = "update" /\ m.phase = "req" /\ m.id = activeTabId
                       /\ m.body = [k \in FormKeys |-> Str(form[k])]
                       /\ m.cont.k = "switch" /\ m.cont.target = id
            ELSE net' = net /\ activeTabId' = id
      /\ \A m \in net :
          (m.cont.k = "switch" /\ m \notin net' /\ m.phase = "resp")
            => activeTabId' = m.cont.target]_vars

\* With accounts 1 and 2 listed and 2 active, the user switched to 1: the form
\* was saved to account 2, the save has settled and tab 1 is active.
C24_Witness ==
  /\ resp.op = "update" /\ resp.param = <<"2">> /\ DOMAIN resp.sent = FormKeys
  /\ activeTabId = 1
  /\ HasAccount(accounts, 1) /\ HasAccount(accounts, 2)
  /\ net = {}

C26_AccountNumberIsNew ==
  (resp.op = "create" /\ resp.status = 201) =>
    LET others == getPatientAccountsBySession(sessionId)
    IN \A i \in 1..Len(others) :
         Get(others[i], "id") # Get(resp.body, "id")
           => Get(others[i], "accountNumber") # Get(resp.body, "accountNumber")

\* C27: a record's session identifier is fixed at creation: no step changes
\* the sessionId of a record that is stored before and after it.
C27_SessionIdFixed ==
  [][\A id \in MapKeys(patientAccounts) \cap MapKeys(patientAccounts') :
       Get(MapGet(patientAccounts', id), "sessionId") = Get(MapGet(patientAccounts, id), "sessionId")]_vars

\* C28: every key of denialCodeMappings maps to an entry whose code is that
\* key, and every such code is a case label of the switch of
\* generateRCMComment whose template is not the generic one; so the form of
\* an account in which a code has been selected from the list never gets the
\* generic template.
C28_SelectableCodesHaveCases ==
  /\ ListShown =>
       \A i \in 1..Len(denialCodeMappings) :
         /\ denialCodeMappings[i].code = denialCodeMappings[i].key
         /\ denialCodeMappings[i].code \in caseCodes
         /\ TemplateOf(denialCodeMappings[i].code) # genericComment
  /\ form["denialCode"] # <<>> =>
       /\ form["denialCode"] \in caseCodes
       /\ specificComment(form) # genericComment

\* The code in the middle of the list has been selected in the form.
C28_Witness ==
  /\ ListShown
  /\ form["denialCode"] = <<"C", "O", "-", "2", "2">>
  /\ <<activeTabId, "denialCode", <<"C", "O", "-", "2", "2">>>> \in entered

\* A reader of CSV text with the standard quoting rules: a field that starts
\* with a quote runs to its closing quote, a doubled quote inside it is one
\* quote, a comma ends a field and a line break outside quotes (a line feed,
\* a carriage return, or the two together) ends a record.
\* The number of quotes that end at place j of a field whose opening quote is
\* at place lo.
QuoteRun(text, lo, j) ==
  j - (CHOOSE r \in lo..j : /\ r = lo \/ text[r] # "\""
                            /\ \A p \in (r + 1)..j : text[p] = "\"")
\* The quote at place j closes the field opened at place lo: it is the last
\* of an odd number of quotes.
IsClosing(text, lo, j) ==
  /\ text[j] = "\""
  /\ j = Len(text) \/ text[j + 1] # "\""
  /\ QuoteRun(text, lo, j) % 2 = 1
ClosingQuote(text, lo) ==
  CHOOSE j \in (lo + 1)..(Len(text) + 1) :
    /\ j = Len(text) + 1 \/ IsClosing(text, lo, j)
    /\ \A k \in (lo + 1)..(j - 1) : ~IsClosing(text, lo, k)
\* The place of the comma or line break that ends a field, from place i on.
FieldEnd(text, i) ==
  IF i > Len(text) THEN Len(text) + 1
  ELSE CHOOSE j \in i..(Len(text) + 1) :
         /\ j = Len(text) + 1 \/ text[j] \in {",", "\n", "\r"}
         /\ \A k \in i..(j - 1) : text[k] \notin {",", "\n", "\r"}
\* The place behind the line break at place j.
AfterBreak(text, j) ==
  IF text[j] = "\r" /\ j < Len(text) /\ text[j + 1] = "\n" THEN j + 2 ELSE j + 1
\* The text between two quotes, every doubled quote read as one.
RECURSIVE Undoubled(_, _, _, _)
Undoubled(text, lo, from, to) ==
  IF from > to THEN <<>>
  ELSE IF from = to
       THEN IF text[from] # "\"" \/ QuoteRun(text, lo, from) % 2 = 1 THEN <<text[from]>> ELSE <<>>
       ELSE Undoubled(text, lo, from, (from + to) \div 2)
            \o Undoubled(text, lo, (from + to) \div 2 + 1, to)
\* The field that starts at place i: its value and the place where it ends.
ReadField(text, i) ==
  IF i <= Len(text) /\ text[i] = "\""
  THEN [cell |-> Undoubled(text, i, i + 1, ClosingQuote(text, i) - 1)
                  \o SubSeq(text, ClosingQuote(text, i) + 1,
                            FieldEnd(text, ClosingQuote(text, i) + 1) - 1),
        end |-> FieldEnd(text, ClosingQuote(text, i) + 1)]
  ELSE [cell |-> SubSeq(text, i, FieldEnd(text, i) - 1), end |-> FieldEnd(text, i)]
RECURSIVE ReadRecords(_, _, _, _)
ReadRecords(text, i, record, records) ==
  IF ReadField(text, i).end > Len(text)
  THEN Append(records, Append(record, ReadField(text, i).cell))
  ELSE IF text[ReadField(text, i).end] = ","
       THEN ReadRecords(text, ReadField(text, i).end + 1,
                        Append(record, ReadField(text, i).cell), records)
       ELSE ReadRecords(text, AfterBreak(text, ReadField(text, i).end), <<>>,
                        Append(records, Append(record, ReadField(text, i).cell)))
ReadCsv(text) == ReadRecords(text, 1, <<>>, <<>>)

\* The data rows of a file that has been read: the records after the header.
DataRows(records) ==
  LET h == CHOOSE i \in 1..Len(records) : records[i] = headers
  IN SubSeq(records, h + 1, Len(records))

\* C29: every data row of the exported file, read back with the standard CSV
\* quoting rules, has as many fields as the header row and each field is the
\* value that was exported, whatever the values hold (commas, quotes, line
\* breaks); and there are as many data rows as accounts.
C29_CsvReadsBack ==
  exported # NoExport =>
    \E records \in {ReadCsv(exported.csvContent)} :
      /\ \E i \in 1..Len(records) : records[i] = headers
      /\ Len(DataRows(records)) = Len(accounts)
      /\ \A i \in 1..Len(DataRows(records)) :
           /\ Len(DataRows(records)[i]) = Len(headers)
           /\ DataRows(records)[i] = exported.csvRows[i]
           /\ DataRows(records)[i] = csvRow(accounts[i])

\* The end of every comment: " Call ref #" and the call reference or its
\* placeholder.
CallRefOf(formData) ==
  <<" ", "C", "a", "l", "l", " ", "r", "e", "f", " ", "#">>
  \o OrText(Prop(formData, "callReference"), <<"[", "R", "e", "f", "e", "r", "e", "n", "c", "e", "]">>)

\* C30: the " Additional notes: " segment is in a generated comment exactly
\* when the notes are not missing, empty or blank, and then the character
\* directly before " Call ref #" is ".", "!" or "?", for every denial code,
\* CO-22 with notes rewritten as a coordination-of-benefits summary included.
C30_NotesSegmentEndsSentence ==
  \A g \in generated :
    /\ EndsWith(g.comment, CallRefOf(g.formData))
    /\ includes(g.comment, <<" ", "A", "d", "d", "i", "t", "i", "o", "n", "a", "l", " ", "n", "o", "t", "e", "s", ":", " ">>)
         <=> trim(Prop(g.formData, "additionalNotes")) # <<>>
    /\ trim(Prop(g.formData, "additionalNotes")) # <<>> =>
         /\ Len(g.comment) > Len(CallRefOf(g.formData))
         /\ g.comment[Len(g.comment) - Len(CallRefOf(g.formData))] \in {".", "!", "?"}

====
